---- MODULE Spec2Model ----
(***************************************************************************)
(* The regression notebook (src/unnamed/part_000, second notebook, from    *)
(* line 380) as a state machine: the state is the kernel's namespace, the  *)
(* data files, the artifacts written and the outputs shown; one action per *)
(* code cell (the dataframe cell is stepped through its for loop).         *)
(*                                                                         *)
(* Numbers.  Times and photon counts are integers.  Photon counts are      *)
(* perfect squares, so that np.sqrt is exact on them.  Concentrations are  *)
(* in tenths of mM (0.2 mM is 2).  The parameters of the global fit are in *)
(* units of 1e-5 (Scale).  exp and expm1 are not evaluated: a residual is  *)
(* kept as the term (y - f(x, param)) / w with its operands.               *)
(* Sequences are 1-based: position k of the source is position k+1 here.   *)
(***************************************************************************)
EXTENDS Integers, Sequences, FiniteSets, TLC

\* ------------------------------------------------------------------ bounds
MaxRows == 3        \* data rows of a file: 2..MaxRows
MaxRoot == 2        \* square roots of the base photon counts: 1..MaxRoot
MaxExtra == 2       \* residuals of a fit beyond one per curve: 0..MaxExtra
MaxResid == 1       \* the values of the residuals: -MaxResid..MaxResid
MaxDelta == 1       \* what is added to one figure of a dictionary: 0..MaxDelta

\* ------------------------------------------------------- program constants
concs    == <<0, 2, 5, 10, 15>>      \* concs = [0.0,0.2,0.5,1.0,1.5]
DocConcs == <<1, 2, 5, 10, 15>>      \* markdown: 0.1, 0.2, 0.5, 1 e 1.5 mM
skiprows == 9
Scale    == 100000                   \* 1 / 1e-5, the finest parameter value

\* ------------------------------------------------------------ sequences
Range(s) == {s[k] : k \in 1..Len(s)}

Max(s) == CHOOSE m \in Range(s) : \A v \in Range(s) : v <= m

Indices(s) == [k \in 1..Len(s) |-> k]

RECURSIVE Flatten(_)
Flatten(ss) == IF ss = <<>> THEN <<>> ELSE Head(ss) \o Flatten(Tail(ss))

IsNonDecreasing(s) == \A k \in 1..(Len(s) - 1) : s[k] <= s[k + 1]

\* ------------------------------------------------------------ data files
\* A line of a file is text (a header line) or two numeric columns.
DataLine(t, F) == [text |-> FALSE, c0 |-> t, c1 |-> F]

\* '{:1.1f}'.format(conc): the digits before and after the decimal point
FormatConc(c) == <<c \div 10, c % 10>>

\* 'data/fluorescence/quencher_{:1.1f}.txt'.format(conc)
Path(c) == <<"data/fluorescence/quencher_", FormatConc(c), ".txt">>

\* np.loadtxt(path, skiprows=skip): the rows after the first skip lines;
\* a line that is not numeric raises ValueError.
loadtxt(lines, skip) ==
  LET body == SubSeq(lines, skip + 1, Len(lines))
  IN IF \E k \in 1..Len(body) : body[k].text
     THEN [ok |-> FALSE, rows |-> <<>>]
     ELSE [ok |-> TRUE, rows |-> [k \in 1..Len(body) |-> <<body[k].c0, body[k].c1>>]]

\* d[:,j] (and, with unpack=True, the j-th array returned)
Column(rows, j) == [k \in 1..Len(rows) |-> rows[k][j + 1]]

\* ---------------------------------------------------------------- numpy
\* np.sqrt on a perfect square
sqrt_id(F) == F

sqrt(F) == CHOOSE r \in 0..F : r * r <= F /\ F < (r + 1) * (r + 1)

\* F.argmax(): the first position of the maximum
argmax_last(F) == CHOOSE k \in 1..Len(F) :
                    F[k] = Max(F) /\ \A j \in (k + 1)..Len(F) : F[j] < Max(F)

argmax(F) == CHOOSE k \in 1..Len(F) :
               F[k] = Max(F) /\ \A j \in 1..(k - 1) : F[j] < Max(F)

\* t - t[0]
shift_none(t) == t

shift(t) == [k \in 1..Len(t) |-> t[k] - t[1]]

\* ------------------------------------------------------------ dataframes
\* A frame: the label of the index, the column labels, one index label and
\* one record of values per row.
EmptyFrame == [index_name |-> "", columns |-> <<>>, index |-> <<>>, rows |-> <<>>]

\* d = pd.DataFrame(data=np.c_[t,F,np.sqrt(F)],columns=['t','F','errF'])
\* d['conc'] = conc ; d.set_index('conc',inplace=True)
NewFrame(t, F, conc) ==
  [index_name |-> "conc", columns |-> <<"t", "F", "errF">>,
   index |-> [k \in 1..Len(t) |-> conc],
   rows  |-> [k \in 1..Len(t) |-> [t |-> t[k], F |-> F[k], errF |-> sqrt(F[k])]]]

\* data.append(d): the rows of d after the rows of data (an empty frame is
\* left out of the concatenation by pandas)
append(df, d) ==
  IF df.rows = <<>> THEN d
  ELSE [index_name |-> IF df.index_name = d.index_name THEN df.index_name ELSE "",
        columns |-> df.columns,
        index |-> df.index \o d.index,
        rows |-> df.rows \o d.rows]

\* data.loc[label]: the rows whose index label is label, in frame order
loc(df, label) ==
  LET keep == SelectSeq(Indices(df.index), LAMBDA k : df.index[k] = label)
  IN [k \in 1..Len(keep) |-> df.rows[keep[k]]]

\* data.loc[label][col]
Series(df, label, col) ==
  LET r == loc(df, label)
  IN [k \in 1..Len(r) |-> IF col = "t" THEN r[k].t
                          ELSE IF col = "F" THEN r[k].F ELSE r[k].errF]

\* data.to_csv(path): a header line and one line per row, index label first
to_csv(df) ==
  [header |-> <<df.index_name>> \o df.columns,
   lines  |-> [k \in 1..Len(df.rows) |->
                 <<df.index[k], df.rows[k].t, df.rows[k].F, df.rows[k].errF>>]]

\* the frame a CSV dump describes
read_csv(c) ==
  [index_name |-> Head(c.header), columns |-> Tail(c.header),
   index |-> [k \in 1..Len(c.lines) |-> c.lines[k][1]],
   rows  |-> [k \in 1..Len(c.lines) |->
                 [t |-> c.lines[k][2], F |-> c.lines[k][3], errF |-> c.lines[k][4]]]]

\* ------------------------------------------------------- preprocessing
\* dataframe cell, body of the loop: the rows from the intensity peak on
PeakFrame(t, F, conc) ==
  LET t1 == SubSeq(t, argmax(F), Len(t))        \* t = t[F.argmax():]
      F1 == SubSeq(F, argmax(F), Len(F))        \* F = F[F.argmax():]
  IN NewFrame(shift(t1), F1, conc)              \* t = t - t[0]

\* masked plot cell: d[ d[:,0] > d[d[:,1]==d[:,1].max(), 0] ]
\* The right-hand side is the array of the times of all rows that hold the
\* maximum; numpy broadcasts it against d[:,0]: one element is compared with
\* every row, as many elements as rows are compared row by row, any other
\* number raises ValueError.  keep lists the positions that are selected.
mask_select(d) ==
  LET F    == Column(d, 1)
      t    == Column(d, 0)
      peak == SelectSeq(Indices(d), LAMBDA k : F[k] = Max(F))
  IN IF Len(peak) = 1
     THEN [ok |-> TRUE,
           keep |-> SelectSeq(Indices(d), LAMBDA k : t[k] > t[peak[1]])]
     ELSE IF Len(peak) = Len(d)
     THEN [ok |-> TRUE,
           keep |-> SelectSeq(Indices(d), LAMBDA k : t[k] > t[peak[k]])]
     ELSE [ok |-> FALSE, keep |-> <<>>]

\* masked plot cell, body of the loop: the curve handed to plt.errorbar,
\* d[:,0]-d[0,0], d[:,1], np.sqrt(d[:,1]); d[0,0] raises IndexError when no
\* row is selected.
MaskCurve(d, conc) ==
  LET s == mask_select(d)
      n == Len(s.keep)
  IN IF ~s.ok \/ n = 0
     THEN [ok |-> FALSE, conc |-> conc, keep |-> <<>>, x |-> <<>>, y |-> <<>>, yerr |-> <<>>]
     ELSE [ok |-> TRUE, conc |-> conc, keep |-> s.keep,
           x    |-> [k \in 1..n |-> d[s.keep[k]][1] - d[s.keep[1]][1]],
           y    |-> [k \in 1..n |-> d[s.keep[k]][2]],
           yerr |-> [k \in 1..n |-> sqrt(d[s.keep[k]][2])]]

\* raw plot cell, body of the loop: plt.errorbar(t, F, np.sqrt(F), ...)
RawCurve(t, F, conc) ==
  [ok |-> TRUE, conc |-> conc, keep |-> Indices(t),
   x |-> t, y |-> F, yerr |-> [k \in 1..Len(F) |-> sqrt(F[k])]]

\* ------------------------------------------------------ residual functions
\* A weighted residual (y - f) / w, kept as a term.
Residual(y, f, w) == [y |-> y, f |-> f, w |-> w]

\* def exp_decay(x, param): param[0] * np.exp( - x / param[1] )
exp_decay(x, param) == [f |-> "exp_decay", x |-> x, param |-> <<param[1], param[2]>>]

\* def decay(x, param):
\*   param[0]*np.exp( - x/param[1] + param[3]*np.expm1(-param[2]*x) )
decay(x, param) ==
  [f |-> "decay", x |-> x, param |-> <<param[1], param[2], param[3], param[4]>>]

\* def residuals(param, *args), single curve: args are three series
residuals_single(param, a) ==
  [k \in 1..Len(a[2]) |-> Residual(a[2][k], exp_decay(a[1][k], param), a[3][k])]

\* the residuals of curve i in the global function
CurveResiduals(p, a, i, m) ==
  [k \in 1..Len(a[2][i]) |->
     Residual(a[2][i][k], decay(a[1][i][k], <<p[1], p[2], p[3], m>>), a[3][i][k])]

\* def residuals(p, *args), global: args are three lists of series;
\* for i,m in enumerate(p[3:]) ... residuals = np.append(residuals, r)
NumCurves(p) == IF Len(p) > 3 THEN Len(p) - 3 ELSE 0

residuals_global_m0(p, a) ==
  Flatten([i \in 1..NumCurves(p) |-> CurveResiduals(p, a, i, p[4])])

residuals_global(p, a) ==
  Flatten([i \in 1..NumCurves(p) |-> CurveResiduals(p, a, i, p[3 + i])])

\* the call residuals(p, *args) with the function and the data the two names
\* denote at the time of the call
CallResiduals(fn, p, a) ==
  IF fn = "single" /\ a.kind = "series" /\ Len(p) >= 2
  THEN [ok |-> TRUE, r |-> residuals_single(p, a.cols)]
  ELSE IF fn = "global" /\ a.kind = "lists" /\ NumCurves(p) <= Len(a.cols[1])
  THEN [ok |-> TRUE, r |-> residuals_global(p, a.cols)]
  ELSE IF fn = "global" /\ NumCurves(p) = 0      \* p[3:] is empty: np.empty(0)
  THEN [ok |-> TRUE, r |-> <<>>]
  ELSE [ok |-> FALSE, r |-> <<>>]

\* ------------------------------------------------------- fit parameters
Repeat(v, n) == [k \in 1..n |-> v]

\* param0 = [3000, 160, 0.04, 0] + [0.5]*4
param0_short == <<3000 * Scale, 160 * Scale, 4000>> \o Repeat(50000, 4)

param0 == <<3000 * Scale, 160 * Scale, 4000, 0>> \o Repeat(50000, 4)

\* lbound = [0, 0, 0] + [0]*5
lbound == <<0, 0, 0>> \o Repeat(0, 5)

\* ubound = [4000, 200, 1, 1e-5] + [3]*4
ubound == <<4000 * Scale, 200 * Scale, Scale, 1>> \o Repeat(3 * Scale, 4)

\* x0=[3000,150], bounds=[(6,150),(3500,200)]
x0_single == <<3000, 150>>

lb_single == <<6, 150>>

ub_single == <<3500, 200>>

\* least_squares checks its arguments before it iterates: the bounds have
\* the shape of x0, each lower bound is below its upper bound, x0 is feasible
Feasible(x, lb, ub) ==
  /\ Len(lb) = Len(x) /\ Len(ub) = Len(x)
  /\ \A k \in 1..Len(x) : lb[k] < ub[k] /\ lb[k] <= x[k] /\ x[k] <= ub[k]

\* the points the optimizer may return: x0 or x0 moved by one unit in one
\* coordinate (k = 0 moves none), inside the bounds
Moved(x, k) == [j \in 1..Len(x) |-> IF j = k THEN x[j] + 1 ELSE x[j]]

Solutions(x, lb, ub) == {y \in {Moved(x, k) : k \in 0..Len(x)} : Feasible(y, lb, ub)}

\* index of the results table of the global fit
table_index ==
  <<"$F(0)$ (counts)", "$\tau_0$ (ns)", "$k_q$ (ns$^{-1}$)",
    "$m_0$", "$m_1$", "$m_2$", "$m_3$", "$m_4$">>

\* ------------------------------------------------------------------ state
VARIABLES
  files,      \* the data files: path -> lines
  pc,         \* position in CellOrder of the next cell to run
  loop,       \* dataframe cell: iterations of the for loop completed
  data,       \* the name data: the combined dataframe
  pickle,     \* data/fluorescence.p
  csv,        \* data/fluorescence.csv
  plots,      \* the curves drawn by the two plotting cells
  reads,      \* what each loading cell read: path, time and count columns
  errors,     \* the cells that raised
  out,        \* what the cells output or did with a fit result, in order
  args,       \* the name args
  residuals,  \* the name residuals: which definition it denotes
  res,        \* the name res: the latest OptimizeResult
  table,      \* the frame the name table holds (NoTable while it is unbound
              \* or holds one of the format strings of lines 741 and 843)
  XYerrY,     \* the names X, Y, errY
  pushed,     \* the variables X, Y, errY of the R workspace
  calls,      \* the calls of least_squares, in order
  defined     \* the functions bound by def, other than residuals

\* The cells that report on a fit result, taken on their own: what each of
\* them computes from the numbers of the result it reads.
VARIABLES
  bundle,     \* the fit result the reporting cells read, with its numbers
  stage,      \* reporting cells of the result that have run
  report      \* what the reporting cells computed, in order

\* The pandas lecture notebook, a session of its own.
VARIABLES
  ppc,        \* position in PandasOrder of the next cell to run
  ns,         \* the names of the session: the dictionaries, the series, df
  shown       \* the value each expression cell displayed

session_vars == <<files, pc, loop, data, pickle, csv, plots, reads, errors, out,
                  args, residuals, res, table, XYerrY, pushed, calls, defined>>

report_vars == <<bundle, stage, report>>

pandas_vars == <<ppc, ns, shown>>

vars == <<session_vars, report_vars, pandas_vars>>

\* The code cells of the notebook, top to bottom: the first cell, the cells
\* that load the curves, fit them and report the fits, the cells that show
\* the answers of the tasks and the cells that hand the curve to R.  A cell that raises leaves the names as they
\* are and the session goes on with the next cell.
CellOrder_params_first ==
  <<"setup", "cat_file", "ls", "plot_raw", "plot_masked", "dataframe",
    "def_single", "fit_single", "print_params", "print_success", "table_single",
    "variance", "hist", "def_error_analysis", "table2", "p_and_err", "decrypt_1",
    "pip_rpy2", "rpy2_text", "load_ext", "r_names", "r_push",
    "r_plot", "r_df", "r_fit1", "r_fit2", "r_variance",
    "args_global", "def_global", "fit_global", "table_global", "to_latex",
    "decrypt_2">>

CellOrder ==
  <<"setup", "cat_file", "ls", "plot_raw", "plot_masked", "dataframe",
    "def_single", "fit_single", "print_success", "print_params", "table_single",
    "variance", "hist", "def_error_analysis", "table2", "p_and_err", "decrypt_1",
    "pip_rpy2", "rpy2_text", "load_ext", "r_names", "r_push",
    "r_plot", "r_df", "r_fit1", "r_fit2", "r_variance",
    "args_global", "def_global", "fit_global", "table_global", "to_latex",
    "decrypt_2">>

LoadingCells == {"plot_raw", "plot_masked", "dataframe"}

At(cell) == pc <= Len(CellOrder) /\ CellOrder[pc] = cell

Done == pc > Len(CellOrder)

\* ------------------------------------------------------------------- Init
\* One time axis for the five files, starting at 0 or at 1, with a constant
\* time of 1 or of 0 between two rows (the times increase or stay); the counts of the k-th file are the
\* squares of the base roots multiplied by k, in reverse row order for even
\* k, so the files differ and their peaks fall on different rows.  Every
\* file has the 9 header lines of the format.
Header == [k \in 1..9 |-> [text |-> TRUE, c0 |-> 0, c1 |-> 0]]

TimeAxes(n) ==
  {[j \in 1..n |-> start + step * (j - 1)] : start \in {0, 1}, step \in {0, 1}}

FileRoots(roots, k) ==
  [j \in 1..Len(roots) |-> k * roots[IF k % 2 = 0 THEN Len(roots) + 1 - j ELSE j]]

FileLines(t, roots, k) ==
  Header \o [j \in 1..Len(t) |->
               DataLine(t[j], FileRoots(roots, k)[j] * FileRoots(roots, k)[j])]

NoArgs == [kind |-> "none", labels |-> <<>>, cols |-> <<>>]

NoResult == [fit |-> "none", x |-> <<>>, success |-> FALSE, fun |-> <<>>, first |-> <<>>]

NoTable == [ok |-> FALSE, index |-> <<>>, Value |-> <<>>, fit |-> "none"]

\* no reporting cell taken on its own, no pandas session
ReportIdle == bundle = <<>> /\ stage = 0 /\ report = <<>>

PandasIdle == ppc = 0 /\ ns = <<>> /\ shown = <<>>

Init ==
  /\ ReportIdle
  /\ PandasIdle
  /\ \E n \in 2..MaxRows : \E t \in TimeAxes(n), roots \in [1..n -> 1..MaxRoot] :
       files = [path \in {Path(concs[k]) : k \in 1..Len(concs)} |->
                  FileLines(t, roots, CHOOSE k \in 1..Len(concs) : Path(concs[k]) = path)]
  /\ pc = 1
  /\ loop = 0
  /\ data = EmptyFrame
  /\ pickle = [written |-> FALSE, frame |-> EmptyFrame]
  /\ csv = [written |-> FALSE, dump |-> to_csv(EmptyFrame)]
  /\ plots = [c \in {"plot_raw", "plot_masked"} |-> <<>>]
  /\ reads = [c \in LoadingCells |-> <<>>]
  /\ errors = {}
  /\ out = <<>>
  /\ args = NoArgs
  /\ residuals = "unbound"
  /\ res = NoResult
  /\ table = NoTable
  /\ XYerrY = NoArgs
  /\ pushed = NoArgs
  /\ calls = <<>>
  /\ defined = {}

\* ------------------------------------------- the cells outside the fits
\* an entry of out: what a cell output, and of which fit
Event(cell, kind, fit) == [cell |-> cell, kind |-> kind, fit |-> fit]

\* the parameters of the functions the notebook defines, none of them with
\* a default value: def encrypt(string, key), def decrypt(string, key),
\* def exp_decay(x, param), def decay(x, param), def error_analysis(res)
parameters ==
  [encrypt |-> 2, decrypt |-> 2, exp_decay |-> 2, decay |-> 2, error_analysis |-> 1]

\* the first code cell: the imports, def encrypt, def decrypt
CellSetup ==
  /\ At("setup")
  /\ defined' = defined \cup {"encrypt", "decrypt"}
  /\ pc' = pc + 1
  /\ UNCHANGED <<report_vars, pandas_vars, XYerrY, pushed, calls, files, loop, data, pickle, csv, plots, reads, errors, out, args, residuals, res, table>>

\* answer = '...' and, in the next cell, decrypt(answer,): the call passes
\* one argument; NameError while decrypt is not bound, TypeError when the
\* function has a parameter the call gives no value
CellDecrypt ==
  /\ At("decrypt_1") \/ At("decrypt_2")
  /\ IF "decrypt" \in defined /\ parameters["decrypt"] <= 1
     THEN /\ out' = out \o <<Event(CellOrder[pc], "print_answer", "none")>>
          /\ UNCHANGED errors
     ELSE /\ errors' = errors \cup {CellOrder[pc]}
          /\ UNCHANGED out
  /\ pc' = pc + 1
  /\ UNCHANGED <<report_vars, pandas_vars, defined, XYerrY, pushed, calls, files, loop, data, pickle, csv, plots, reads, args, residuals, res, table>>

\* the cell typed as code whose source is the sentence "We load the
\* extension [rpy2](...)": the kernel cannot parse it, SyntaxError
CellRpy2Text ==
  /\ At("rpy2_text")
  /\ errors' = errors \cup {"rpy2_text"}
  /\ pc' = pc + 1
  /\ UNCHANGED <<report_vars, pandas_vars, defined, XYerrY, pushed, calls, files, loop, data, pickle, csv, plots, reads, out, args, residuals, res, table>>

\* ---------------------------------------------------------- loading cells
\* np.loadtxt('data/fluorescence/quencher_{:1.1f}.txt'.format(conc), skiprows=9)
ReadFile(conc) ==
  IF Path(conc) \in DOMAIN files
  THEN loadtxt(files[Path(conc)], skiprows)
  ELSE [ok |-> FALSE, rows |-> <<>>]

\* the record of one read: with unpack=True t,F are the two columns, with
\* unpack=False the cell uses d[:,0] as time and d[:,1] as count
ReadRecord(conc) ==
  LET L == ReadFile(conc)
  IN [path |-> Path(conc), skiprows |-> skiprows, ok |-> L.ok,
      t |-> Column(L.rows, 0), F |-> Column(L.rows, 1)]

\* a for loop over concs that stops at the first iteration that raises:
\* the number of iterations that complete
Completed(curves) ==
  IF \A k \in 1..Len(curves) : curves[k].ok THEN Len(curves)
  ELSE (CHOOSE k \in 1..Len(curves) : ~curves[k].ok /\ \A j \in 1..(k - 1) : curves[j].ok) - 1

Attempted(curves) ==
  IF Completed(curves) < Len(curves) THEN Completed(curves) + 1 ELSE Len(curves)

FailedCurve(conc) ==
  [ok |-> FALSE, conc |-> conc, keep |-> <<>>, x |-> <<>>, y |-> <<>>, yerr |-> <<>>]

\* raw plot cell
CellPlotRaw ==
  /\ At("plot_raw")
  /\ LET curves == [k \in 1..Len(concs) |->
                      LET L == ReadFile(concs[k])
                      IN IF L.ok THEN RawCurve(Column(L.rows, 0), Column(L.rows, 1), concs[k])
                         ELSE FailedCurve(concs[k])]
     IN /\ plots' = [plots EXCEPT !["plot_raw"] = SubSeq(curves, 1, Completed(curves))]
        /\ reads' = [reads EXCEPT !["plot_raw"] =
                       [k \in 1..Attempted(curves) |-> ReadRecord(concs[k])]]
        /\ errors' = IF Completed(curves) < Len(curves)
                     THEN errors \cup {"plot_raw"} ELSE errors
  /\ pc' = pc + 1
  /\ UNCHANGED <<report_vars, pandas_vars, defined, XYerrY, pushed, calls, files, loop, data, pickle, csv, out, args, residuals, res, table>>

\* masked plot cell
CellPlotMasked ==
  /\ At("plot_masked")
  /\ LET curves == [k \in 1..Len(concs) |->
                      LET L == ReadFile(concs[k])
                      IN IF L.ok THEN MaskCurve(L.rows, concs[k])
                         ELSE FailedCurve(concs[k])]
     IN /\ plots' = [plots EXCEPT !["plot_masked"] = SubSeq(curves, 1, Completed(curves))]
        /\ reads' = [reads EXCEPT !["plot_masked"] =
                       [k \in 1..Attempted(curves) |-> ReadRecord(concs[k])]]
        /\ errors' = IF Completed(curves) < Len(curves)
                     THEN errors \cup {"plot_masked"} ELSE errors
  /\ pc' = pc + 1
  /\ UNCHANGED <<report_vars, pandas_vars, defined, XYerrY, pushed, calls, files, loop, data, pickle, csv, out, args, residuals, res, table>>

\* dataframe cell: one iteration of "for conc in concs"; the first one
\* follows data = pd.DataFrame()
LoopDone_first(n) == n >= 1

LoopDone(n) == n >= Len(concs)

CellDataFrameLoop ==
  /\ At("dataframe")
  /\ ~LoopDone(loop)
  /\ LET conc == concs[loop + 1]
         L    == ReadFile(conc)
         df   == IF loop = 0 THEN EmptyFrame ELSE data
     IN /\ reads' = [reads EXCEPT !["dataframe"] =
                       (IF loop = 0 THEN <<>> ELSE @) \o <<ReadRecord(conc)>>]
        /\ IF L.ok
           THEN /\ data' = append(df, PeakFrame(Column(L.rows, 0), Column(L.rows, 1), conc))
                /\ loop' = loop + 1
                /\ UNCHANGED <<pc, errors>>
           ELSE /\ data' = df
                /\ loop' = 0
                /\ pc' = pc + 1
                /\ errors' = errors \cup {"dataframe"}
  /\ UNCHANGED <<report_vars, pandas_vars, defined, XYerrY, pushed, calls, files, pickle, csv, plots, out, args, residuals, res, table>>

\* dataframe cell after the loop:
\* data.to_pickle('data/fluorescence.p'); data.to_csv('data/fluorescence.csv')
CellDataFrameWrite ==
  /\ At("dataframe")
  /\ LoopDone(loop)
  /\ pickle' = [written |-> TRUE, frame |-> data]
  /\ csv' = [written |-> TRUE, dump |-> to_csv(data)]
  /\ loop' = 0
  /\ pc' = pc + 1
  /\ UNCHANGED <<report_vars, pandas_vars, defined, XYerrY, pushed, calls, files, data, plots, reads, errors, out, args, residuals, res, table>>

\* -------------------------------------------------------------- fit cells
\* least_squares(residuals, x0=x0, args=a, bounds=[lb,ub]): raises when the
\* arguments are rejected or the residual function raises at x0; otherwise
\* it evaluates the residuals at x0 first and returns a solution with its
\* residuals and a success flag that is False when no convergence criterion
\* was met.
CanFit(fn, x0, a, lb, ub) == Feasible(x0, lb, ub) /\ CallResiduals(fn, x0, a).ok

OptimizeResult(fit, fn, x0, a, x, success) ==
  [fit |-> fit, x |-> x, success |-> success,
   fun |-> CallResiduals(fn, x, a).r, first |-> CallResiduals(fn, x0, a).r]

\* a call least_squares(residuals, x0=x0, args=a, ...) as a cell makes it:
\* the function the name residuals denotes and the data passed
Call(cell, fn, x0, a) == [cell |-> cell, residuals |-> fn, x0 |-> x0, args |-> a]

\* what a call may return: least_squares is a function of its arguments, so
\* a call with the function and the data of the latest call returns what
\* that call returned, which res still holds
Returns(fit, fn, x0, a, lb, ub) ==
  IF /\ calls /= <<>>
     /\ calls[Len(calls)].residuals = fn
     /\ calls[Len(calls)].x0 = x0
     /\ calls[Len(calls)].args = a
  THEN {res}
  ELSE {OptimizeResult(fit, fn, x0, a, x, success) :
          x \in Solutions(x0, lb, ub), success \in BOOLEAN}

\* def exp_decay ... def residuals (single curve)
CellDefSingle ==
  /\ At("def_single")
  /\ residuals' = "single"
  /\ defined' = defined \cup {"exp_decay"}
  /\ pc' = pc + 1
  /\ UNCHANGED <<report_vars, pandas_vars, XYerrY, pushed, calls, files, loop, data, pickle, csv, plots, reads, errors, out, args, res, table>>

\* args = [data.loc[0.0][col] for col in ['t','F','errF']]
\* labels: the index label the series carry
args_single_next == [kind |-> "series", labels |-> <<concs[2]>>,
                     cols |-> <<Series(data, concs[2], "t"), Series(data, concs[2], "F"),
                                Series(data, concs[2], "errF")>>]

args_single == [kind |-> "series", labels |-> <<0>>,
                cols |-> <<Series(data, 0, "t"), Series(data, 0, "F"), Series(data, 0, "errF")>>]

\* single-curve fit cell: args, least_squares, plt.errorbar, plt.plot of
\* exp_decay(args[0],res['x'])
FitSingle ==
  /\ args' = args_single
  /\ IF CanFit(residuals, x0_single, args_single, lb_single, ub_single)
     THEN \E r \in Returns("single", residuals, x0_single, args_single, lb_single, ub_single) :
            /\ res' = r
            /\ calls' = Append(calls, Call("fit_single", residuals, x0_single, args_single))
            /\ out' = out \o <<Event("fit_single", "plot_x", "single")>>
            /\ UNCHANGED errors
     ELSE /\ errors' = errors \cup {"fit_single"}
          /\ calls' = Append(calls, Call("fit_single", residuals, x0_single, args_single))
          /\ UNCHANGED <<res, out>>
  /\ UNCHANGED <<report_vars, pandas_vars, defined, XYerrY, pushed, files, loop, data, pickle, csv, plots, reads, residuals, table>>

\* the cell in its turn
CellFitSingle ==
  /\ At("fit_single")
  /\ FitSingle
  /\ pc' = pc + 1

\* the cell executed a second time, at any point after its turn
CellFitSingleAgain ==
  /\ \E k \in 1..(pc - 1) : k <= Len(CellOrder) /\ CellOrder[k] = "fit_single"
  /\ Cardinality({k \in 1..Len(calls) : calls[k].cell = "fit_single"}) = 1
  /\ FitSingle
  /\ UNCHANGED pc

\* a cell that outputs something of res: NameError while res is unbound
Report(cell, kind) ==
  /\ At(cell)
  /\ IF res.fit = "none"
     THEN /\ errors' = errors \cup {cell}
          /\ UNCHANGED out
     ELSE /\ out' = out \o <<Event(cell, kind, res.fit)>>
          /\ UNCHANGED errors
  /\ pc' = pc + 1
  /\ UNCHANGED <<report_vars, pandas_vars, defined, XYerrY, pushed, calls, files, loop, data, pickle, csv, plots, reads, args, residuals, res, table>>

\* the cells that output something of res and bind no name the session
\* tracks:
\*   print('Is one of the convergence criteria satisfied?', res.success)
\*   print('The best-fit parameters are',res.x[0],'and',res.x[1])
\*   display.Markdown(table % tuple(res.x) )
\*   print('The residual variance is', 2 * res.cost / (res.fun.size - res.x.size))
\*   bins = np.linspace(res.fun.min(), ...); plt.hist(res.fun, bins, ...)
CellShowRes ==
  \/ Report("print_success", "print_success")
  \/ Report("print_params", "print_x")
  \/ Report("table_single", "table_x")
  \/ Report("variance", "print_variance")
  \/ Report("hist", "plot_fun")

\* from scipy.linalg import svd; def error_analysis(res): ...
CellDefErrorAnalysis ==
  /\ At("def_error_analysis")
  /\ defined' = defined \cup {"error_analysis"}
  /\ pc' = pc + 1
  /\ UNCHANGED <<report_vars, pandas_vars, XYerrY, pushed, calls, files, loop, data, pickle, csv, plots, reads, errors, out, args, residuals, res, table>>

\* p_and_err = np.repeat(res.x, 2); p_and_err[1::2] = error_analysis(res)[0]
\* print('Reduced chi squared:',error_analysis(res)[1])
\* display.Markdown(table % tuple(p_and_err) )
\* NameError while res or error_analysis is unbound; the format of the
\* table takes four values, TypeError when p_and_err has another number
CellPAndErr ==
  /\ At("p_and_err")
  /\ IF res.fit = "none" \/ "error_analysis" \notin defined
     THEN /\ errors' = errors \cup {"p_and_err"}
          /\ UNCHANGED out
     ELSE IF 2 * Len(res.x) /= 4
     THEN /\ errors' = errors \cup {"p_and_err"}
          /\ out' = out \o <<Event("p_and_err", "print_chi2", res.fit)>>
     ELSE /\ out' = out \o <<Event("p_and_err", "print_chi2", res.fit),
                               Event("p_and_err", "table_x", res.fit)>>
          /\ UNCHANGED errors
  /\ pc' = pc + 1
  /\ UNCHANGED <<report_vars, pandas_vars, defined, XYerrY, pushed, calls, files, loop, data, pickle, csv, plots, reads, args, residuals, res, table>>

\* the cells that bind none of the names the session tracks and output
\* nothing of a fit result: %cat, %ls, the format table of the errors,
\* !pip install rpy2, %load_ext rpy2.ipython, and the %%R cells, which read
\* X, Y, errY in the R workspace and raise while these were not pushed
RCells == {"r_plot", "r_df", "r_fit1", "r_fit2", "r_variance"}

CellOther ==
  /\ pc <= Len(CellOrder)
  /\ CellOrder[pc] \in {"cat_file", "ls", "table2", "pip_rpy2", "load_ext"} \cup RCells
  /\ errors' = IF CellOrder[pc] \in RCells /\ pushed.kind = "none"
               THEN errors \cup {CellOrder[pc]} ELSE errors
  /\ pc' = pc + 1
  /\ UNCHANGED <<report_vars, pandas_vars, defined, XYerrY, pushed, calls, files, loop, data, pickle, csv, plots, reads, out, args, residuals, res, table>>

\* print(table.to_latex()): prints the frame the name table holds, of the
\* fit it was built from, whatever res is bound to now; AttributeError while
\* table is no frame
CellLatex ==
  /\ At("to_latex")
  /\ IF table.ok
     THEN /\ out' = out \o <<Event("to_latex", "print_table", table.fit)>>
          /\ UNCHANGED errors
     ELSE /\ errors' = errors \cup {"to_latex"}
          /\ UNCHANGED out
  /\ pc' = pc + 1
  /\ UNCHANGED <<report_vars, pandas_vars, defined, XYerrY, pushed, calls, files, loop, data, pickle, csv, plots, reads, args, residuals, res, table>>

\* X = args[0]; Y = args[1]; errY = args[2]: NameError while args is unbound
CellRNames ==
  /\ At("r_names")
  /\ IF args.kind = "none"
     THEN /\ errors' = errors \cup {"r_names"}
          /\ UNCHANGED XYerrY
     ELSE /\ XYerrY' = [args EXCEPT !.cols = <<args.cols[1], args.cols[2], args.cols[3]>>]
          /\ UNCHANGED errors
  /\ pc' = pc + 1
  /\ UNCHANGED <<report_vars, pandas_vars, defined, pushed, calls, files, loop, data, pickle, csv, plots, reads, out, args, residuals, res, table>>

\* %Rpush X Y errY: NameError while the names are unbound
CellRPush ==
  /\ At("r_push")
  /\ IF XYerrY.kind = "none"
     THEN /\ errors' = errors \cup {"r_push"}
          /\ UNCHANGED pushed
     ELSE /\ pushed' = XYerrY
          /\ UNCHANGED errors
  /\ pc' = pc + 1
  /\ UNCHANGED <<report_vars, pandas_vars, defined, XYerrY, calls, files, loop, data, pickle, csv, plots, reads, out, args, residuals, res, table>>

\* args = [ [data.loc[conc][col] for conc in concs] for col in ['t','F','errF'] ]
\* param0 = ... ; lbound = ... ; ubound = ...
ArgsList(col) == [i \in 1..Len(concs) |-> Series(data, concs[i], col)]

args_global == [kind |-> "lists", labels |-> concs,
                cols |-> <<ArgsList("t"), ArgsList("F"), ArgsList("errF")>>]

CellArgsGlobal ==
  /\ At("args_global")
  /\ args' = args_global
  /\ pc' = pc + 1
  /\ UNCHANGED <<report_vars, pandas_vars, defined, XYerrY, pushed, calls, files, loop, data, pickle, csv, plots, reads, errors, out, residuals, res, table>>

\* def decay ... def residuals (global)
CellDefGlobal ==
  /\ At("def_global")
  /\ residuals' = "global"
  /\ defined' = defined \cup {"decay"}
  /\ pc' = pc + 1
  /\ UNCHANGED <<report_vars, pandas_vars, XYerrY, pushed, calls, files, loop, data, pickle, csv, plots, reads, errors, out, args, res, table>>

\* global fit cell: least_squares, p = res['x'], the plots of
\* decay(args[0][i],param), print of error_analysis(res)[1]
CellFitGlobal ==
  /\ At("fit_global")
  /\ IF CanFit(residuals, param0, args, lbound, ubound)
     THEN \E r \in Returns("global", residuals, param0, args, lbound, ubound) :
            /\ res' = r
            /\ calls' = Append(calls, Call("fit_global", residuals, param0, args))
            /\ IF "error_analysis" \in defined
               THEN /\ out' = out \o <<Event("fit_global", "plot_x", "global"),
                                         Event("fit_global", "print_chi2", "global")>>
                    /\ UNCHANGED errors
               ELSE /\ out' = out \o <<Event("fit_global", "plot_x", "global")>>
                    /\ errors' = errors \cup {"fit_global"}
     ELSE /\ errors' = errors \cup {"fit_global"}
          /\ calls' = Append(calls, Call("fit_global", residuals, param0, args))
          /\ UNCHANGED <<res, out>>
  /\ pc' = pc + 1
  /\ UNCHANGED <<report_vars, pandas_vars, defined, XYerrY, pushed, files, loop, data, pickle, csv, plots, reads, args, residuals, table>>

\* table = pd.DataFrame({'Value':res.x,'Error':error_analysis(res)[0]},
\*                      index=[...8 labels...], columns=['Value','Error'])
\* table
\* NameError while res or error_analysis is unbound, ValueError when res.x
\* has not one value per label
CellTableGlobal ==
  /\ At("table_global")
  /\ IF /\ res.fit /= "none"
        /\ "error_analysis" \in defined
        /\ Len(res.x) = Len(table_index)
     THEN /\ table' = [ok |-> TRUE, index |-> table_index, Value |-> res.x,
                         fit |-> res.fit]
          /\ out' = out \o <<Event("table_global", "table_x", res.fit)>>
          /\ UNCHANGED errors
     ELSE /\ errors' = errors \cup {"table_global"}
          /\ UNCHANGED <<table, out>>
  /\ pc' = pc + 1
  /\ UNCHANGED <<report_vars, pandas_vars, defined, XYerrY, pushed, calls, files, loop, data, pickle, csv, plots, reads, args, residuals, res>>

\* ------------------------------------------------------------------- Spec
Next ==
  \/ CellSetup
  \/ CellDecrypt
  \/ CellRpy2Text
  \/ CellPlotRaw
  \/ CellPlotMasked
  \/ CellDataFrameLoop
  \/ CellDataFrameWrite
  \/ CellDefSingle
  \/ CellFitSingle
  \/ CellShowRes
  \/ CellDefErrorAnalysis
  \/ CellPAndErr
  \/ CellOther
  \/ CellLatex
  \/ CellRNames
  \/ CellRPush
  \/ CellArgsGlobal
  \/ CellDefGlobal
  \/ CellFitGlobal
  \/ CellTableGlobal

Spec == Init /\ [][Next]_vars

\* the session in which the single-curve fit cell may be executed once more
NextAgain ==
  \/ Next
  \/ CellFitSingleAgain

SpecAgain == Init /\ [][NextAgain]_vars

\* ------------------------------------------------------- Task 2 snippet
\* data[key]: the column key of a frame, KeyError when no column has the
\* label
frame_getitem(df, key) ==
  [ok |-> \E j \in 1..Len(df.columns) : df.columns[j] = key,
   index |-> df.index,
   values |-> [k \in 1..Len(df.rows) |->
                 IF key = "t" THEN df.rows[k].t
                 ELSE IF key = "F" THEN df.rows[k].F ELSE df.rows[k].errF]]

\* series[key]: the values under the index label key, KeyError when the
\* series is not there or no row has the label (a label is found by its
\* value: a string is no label of a numeric index)
series_getitem(s, key) ==
  LET at == SelectSeq(Indices(s.index), LAMBDA k : ToString(s.index[k]) = ToString(key))
  IN [ok |-> s.ok /\ at /= <<>>,
      values |-> [k \in 1..Len(at) |-> s.values[at[k]]]]

\* data = pd.read_pickle('data/fluorescence.p')
\* for conc in data.columns:
\*     allx.append(data[conc]['t']); ally.append(data[conc]['F']); allyerr.append(data[conc]['Ferr'])
\* args = allx, ally, allyerr
Task2Snippet(df) ==
  LET get(conc, key) == series_getitem(frame_getitem(df, conc), key)
      n    == Len(df.columns)
      allx == [i \in 1..n |-> get(df.columns[i], "t")]
      ally == [i \in 1..n |-> get(df.columns[i], "F")]
      allyerr == [i \in 1..n |-> get(df.columns[i], "Ferr")]
      ok   == \A i \in 1..n : allx[i].ok /\ ally[i].ok /\ allyerr[i].ok
  IN [ok |-> ok,
      args |-> IF ok THEN <<[i \in 1..n |-> allx[i].values],
                            [i \in 1..n |-> ally[i].values],
                            [i \in 1..n |-> allyerr[i].values]>>
               ELSE <<>>]

\* =============================================== reporting on a fit result
\* The cells that compute something from a fit result, each applied to a
\* result whose numbers are given: the residuals are integers, the singular
\* values of the Jacobian are 0 or powers of two, the right-singular
\* vectors are kept by their position in the decomposition.

\* a quotient of two integers, kept as the pair (the division of floats by
\* 0 gives inf or nan, it does not raise)
Quotient(n, d) == [num |-> n, den |-> d]

\* k * q and q / k for an integer k
Times(k, q) == [num |-> k * q.num, den |-> q.den]

Over(q, k) == [num |-> q.num, den |-> q.den * k]

\* sum(v)
RECURSIVE sum(_)
sum(v) == IF v = <<>> THEN 0 ELSE Head(v) + sum(Tail(v))

\* np.dot(f, g)
dot(f, g) == sum([k \in 1..Len(f) |-> f[k] * g[k]])

\* res.cost of least_squares: "res.cost is half sum of squares!"
cost(fun) == Quotient(dot(fun, fun), 2)

\* a.size
size(a) == Len(a)

\* print('The residual variance is', 2 * res.cost / (res.fun.size - res.x.size))
residual_variance(r) == Over(Times(2, r.cost), size(r.fun) - size(r.x))

\* R: sum(residuals(fit2))/952
R_residuals(fit) == fit.fun

R_variance(fit) == Quotient(sum(R_residuals(fit)), 952)

\* np.finfo(float).eps is 2^-EpsBits
EpsBits == 52

\* a singular value: 0 or 2^e
Zero == [zero |-> TRUE, e |-> 0]

PowerOfTwo(e) == [zero |-> FALSE, e |-> e]

\* s > np.finfo(float).eps * M * s0 for singular values s <= s0 and a
\* dimension M below 2^30: 2^e > 2^-52 * M * 2^e0
GreaterEq(s, M, s0) ==
  /\ ~s.zero
  /\ \/ s0.zero
     \/ LET d == s.e - s0.e + EpsBits IN d >= 0 /\ (d > 30 \/ 2^d >= M)

Greater(s, M, s0) ==
  /\ ~s.zero
  /\ \/ s0.zero
     \/ LET d == s.e - s0.e + EpsBits IN d >= 0 /\ (d > 30 \/ 2^d > M)

\* _, s, VT = svd(res.jac, full_matrices=False): min(m, n) singular values
\* in non-increasing order and as many rows of n components; component j of
\* right-singular vector i is kept as the pair of its positions
svd(jac) ==
  LET k == IF jac.shape[1] < jac.shape[2] THEN jac.shape[1] ELSE jac.shape[2]
  IN [s  |-> jac.sv,
      VT |-> [rows |-> k, cols |-> jac.shape[2],
              at |-> [i \in 1..k |-> [j \in 1..jac.shape[2] |-> [vector |-> i, component |-> j]]]]]

\* A[:k], the leading rows of a matrix
leading_rows(A, k) ==
  LET n == IF k < A.rows THEN k ELSE A.rows
  IN [rows |-> n, cols |-> A.cols, at |-> SubSeq(A.at, 1, n)]

\* np.dot(VT.T / s**2, VT) * s_sq: entry (a, b) is the sum over the rows i
\* of VT of VT[i][a] / s[i]**2 * VT[i][b], times s_sq; the division
\* broadcasts s along the rows of VT and raises when their numbers differ
covariance(VT, s, s_sq) ==
  [ok |-> VT.rows = Len(s), n |-> VT.cols,
   at |-> [a \in 1..VT.cols |-> [b \in 1..VT.cols |->
             [s_sq |-> s_sq,
              terms |-> [i \in 1..(IF VT.rows = Len(s) THEN VT.rows ELSE 0) |->
                           [left |-> VT.at[i][a], s |-> s[i], right |-> VT.at[i][b]]]]]]]

\* np.diag(pcov)
diag_kept(P) == [a \in 1..(IF P.n = 0 THEN 0 ELSE Len(P.at[1][1].terms)) |-> P.at[a][a]]

diag(P) == [a \in 1..P.n |-> P.at[a][a]]

\* np.sqrt of an array of numbers that are not perfect squares, kept as terms
sqrt_terms(v) == [a \in 1..Len(v) |-> [sqrt |-> v[a]]]

\* def error_analysis(res)
error_analysis(r) ==
  LET rss       == Times(2, r.cost)
      s_sq      == Over(rss, size(r.fun) - size(r.x))
      d         == svd(r.jac)
      M         == Max(r.jac.shape)                       \* max(res.jac.shape)
      kept      == SelectSeq(Indices(d.s), LAMBDA i : Greater(d.s[i], M, d.s[1]))
      s         == [i \in 1..Len(kept) |-> d.s[kept[i]]]  \* s = s[s > threshold]
      VT        == leading_rows(d.VT, size(s))            \* VT = VT[:s.size]
      pcov      == covariance(VT, s, s_sq)
  IN <<sqrt_terms(diag(pcov)), s_sq>>

\* the markdown tables of the single-curve fit: the conversions of the
\* format string in text order, each with the row and the column it is in
table1 ==
  <<[row |-> "$F(0)$ (counts)", column |-> "Value", conv |-> "%.2f"],
    [row |-> "$\\tau_0$ (ns)",  column |-> "Value", conv |-> "%.2f"]>>

table2 ==
  <<[row |-> "$F(0)$ (counts)", column |-> "Value", conv |-> "%.0f"],
    [row |-> "$F(0)$ (counts)", column |-> "Error", conv |-> "%.0f"],
    [row |-> "$\\tau_0$ (ns)",  column |-> "Value", conv |-> "%.1f"],
    [row |-> "$\\tau_0$ (ns)",  column |-> "Error", conv |-> "%.1f"]>>

\* table % tuple(values): TypeError unless there is one value per
\* conversion; the k-th conversion is applied to the k-th value
Format(tbl, values) ==
  [ok |-> Len(values) = Len(tbl),
   cells |-> [k \in 1..(IF Len(values) = Len(tbl) THEN Len(tbl) ELSE 0) |->
                [row |-> tbl[k].row, column |-> tbl[k].column,
                 conv |-> tbl[k].conv, arg |-> values[k]]]]

\* np.repeat(a, n)
repeat_tiled(a, n) == [k \in 1..(n * Len(a)) |-> a[((k - 1) % Len(a)) + 1]]

repeat(a, n) == [k \in 1..(n * Len(a)) |-> a[((k - 1) \div n) + 1]]

\* p[1::2] = e: ValueError unless e has one value per addressed position
assign_odd(p, e) ==
  [ok |-> Len(e) = Len(p) \div 2,
   v  |-> IF Len(e) = Len(p) \div 2
          THEN [k \in 1..Len(p) |-> IF k % 2 = 0 THEN e[k \div 2] ELSE p[k]]
          ELSE p]

\* pd.DataFrame({'Value':v,'Error':e}, index=index, columns=['Value','Error']):
\* ValueError unless each array has one value per index label
table_frame(v, e, index) ==
  [ok |-> Len(v) = Len(index) /\ Len(e) = Len(index),
   index |-> index, Value |-> v, Error |-> e]

\* ---------------------------------------------------------- fit results
\* the residuals at the solution: one value at the even, one at the odd
\* positions
ResidualVectors(m) ==
  {[k \in 1..m |-> IF k % 2 = 1 THEN a ELSE b] :
     a \in (0 - MaxResid)..MaxResid, b \in (0 - MaxResid)..MaxResid}

\* the Jacobians of m residuals in n parameters: some leading singular
\* values 1, the others 0 or the same value around eps
SmallValues == {Zero} \cup {PowerOfTwo(0 - e) : e \in (EpsBits - 4)..EpsBits}

Jacobians(m, n) ==
  LET k == IF m < n THEN m ELSE n
  IN {[shape |-> <<m, n>>,
       sv |-> [i \in 1..k |-> IF i <= hi THEN PowerOfTwo(0) ELSE small]] :
        hi \in 0..k, small \in SmallValues}

\* the results of a least_squares call at x on curves curves
FitResults(fit, x, curves) ==
  UNION {{[fit |-> fit, x |-> x, fun |-> f, cost |-> cost(f), jac |-> J] :
            f \in ResidualVectors(m), J \in Jacobians(m, Len(x))} :
         m \in curves..(curves + MaxExtra)}

\* fit2 <- nls(Y ~ F0 * exp( - X / tau0 ), ..., start = list(F0 = 2000, tau0 = 100), weights=1/Y)
\* the two coefficients and the residuals of the fit
NlsFits ==
  UNION {{[fit |-> "fit2", x |-> <<2000, 100>>, fun |-> f, cost |-> cost(f),
           jac |-> [shape |-> <<m, 2>>, sv |-> <<>>]] :
            f \in ResidualVectors(m)} : m \in 1..(1 + MaxExtra)}

Bundles ==
  FitResults("single", x0_single, 1) \cup FitResults("global", param0, Len(concs))
    \cup NlsFits

\* no regression session
SessionIdle ==
  /\ files = <<>> /\ pc = 0 /\ loop = 0 /\ data = <<>> /\ pickle = <<>>
  /\ csv = <<>> /\ plots = <<>> /\ reads = <<>> /\ errors = {} /\ out = <<>>
  /\ args = <<>> /\ residuals = "" /\ res = <<>> /\ table = <<>>
  /\ XYerrY = <<>> /\ pushed = <<>> /\ calls = <<>> /\ defined = {}

InitReport ==
  /\ SessionIdle
  /\ PandasIdle
  /\ bundle \in Bundles
  /\ stage = 0
  /\ report = <<>>

\* the cells that report on a result, in notebook order: those between the
\* single-curve fit and the global fit, those from the global fit on, and
\* the R cell after fit2
ReportCells(fit) ==
  IF fit = "single" THEN <<"table_single", "variance", "p_and_err">>
  ELSE IF fit = "global" THEN <<"print_chi2", "table_global">>
  ELSE <<"r_variance">>

Reporting(cell) ==
  /\ stage < Len(ReportCells(bundle.fit))
  /\ ReportCells(bundle.fit)[stage + 1] = cell

Reported(entry) ==
  /\ report' = report \o <<entry>>
  /\ stage' = stage + 1
  /\ UNCHANGED <<bundle, session_vars, pandas_vars>>

\* display.Markdown(table % tuple(res.x) )
ReportTableSingle ==
  /\ Reporting("table_single")
  /\ Reported([cell |-> "table_single", table |-> Format(table1, bundle.x)])

\* print('The residual variance is', 2 * res.cost / (res.fun.size - res.x.size))
ReportVariance ==
  /\ Reporting("variance")
  /\ Reported([cell |-> "variance", value |-> residual_variance(bundle)])

\* p_and_err = np.repeat(res.x, 2); p_and_err[1::2] = error_analysis(res)[0]
\* print('Reduced chi squared:',error_analysis(res)[1])
\* display.Markdown(table % tuple(p_and_err) )
ReportPAndErr ==
  /\ Reporting("p_and_err")
  /\ LET p == assign_odd(repeat(bundle.x, 2), error_analysis(bundle)[1])
     IN Reported([cell |-> "p_and_err", ok |-> p.ok, p_and_err |-> p.v,
                  errors |-> error_analysis(bundle)[1],
                  value |-> error_analysis(bundle)[2],
                  table |-> IF p.ok THEN Format(table2, p.v) ELSE Format(table2, <<>>)])

\* global fit cell: print('Reduced chi squared:',error_analysis(res)[1])
ReportChi2 ==
  /\ Reporting("print_chi2")
  /\ Reported([cell |-> "print_chi2", value |-> error_analysis(bundle)[2]])

\* table = pd.DataFrame({'Value':res.x,'Error':error_analysis(res)[0]}, index=[...], ...)
ReportTableGlobal ==
  /\ Reporting("table_global")
  /\ Reported([cell |-> "table_global", errors |-> error_analysis(bundle)[1],
               table |-> table_frame(bundle.x, error_analysis(bundle)[1], table_index)])

\* %%R sum(residuals(fit2))/952
ReportRVariance ==
  /\ Reporting("r_variance")
  /\ Reported([cell |-> "r_variance", value |-> R_variance(bundle)])

NextReport ==
  \/ ReportTableSingle
  \/ ReportVariance
  \/ ReportPAndErr
  \/ ReportChi2
  \/ ReportTableGlobal
  \/ ReportRVariance

SpecReport == InitReport /\ [][NextReport]_vars

\* ============================================= the pandas lecture notebook
\* A value of a series or frame: a float (in tenths of a tonne), the
\* missing marker NaN, or None.
Float(v) == [kind |-> "float", v |-> v]

NaN == [kind |-> "NaN", v |-> 0]

None == [kind |-> "None", v |-> 0]

\* the code points of the strings used as labels
Spelling ==
  [Estonia |-> <<69, 115, 116, 111, 110, 105, 97>>,
   Germany |-> <<71, 101, 114, 109, 97, 110, 121>>,
   Italy |-> <<73, 116, 97, 108, 121>>,
   Luxembourg |-> <<76, 117, 120, 101, 109, 98, 111, 117, 114, 103>>,
   Luxembroug |-> <<76, 117, 120, 101, 109, 98, 114, 111, 117, 103>>,
   Netherlands |-> <<78, 101, 116, 104, 101, 114, 108, 97, 110, 100, 115>>,
   Sweden |-> <<83, 119, 101, 100, 101, 110>>]

\* a < b for two strings
RECURSIVE LexLess(_, _)
LexLess(a, b) ==
  IF b = <<>> THEN FALSE
  ELSE IF a = <<>> THEN TRUE
  ELSE IF Head(a) /= Head(b) THEN Head(a) < Head(b)
  ELSE LexLess(Tail(a), Tail(b))

Before(a, b) == LexLess(Spelling[a], Spelling[b])

Has(labels, l) == \E k \in 1..Len(labels) : labels[k] = l

\* the position (from 1) of a label in an index
Position(labels, l) == CHOOSE k \in 1..Len(labels) : labels[k] = l

\* the labels of a and then those of b that a lacks
Union(a, b) == a \o SelectSeq(b, LAMBDA l : ~Has(a, l))

\* distinct strings in increasing order
sorted(labels) ==
  [i \in 1..Len(labels) |->
     CHOOSE l \in Range(labels) : Cardinality({m \in Range(labels) : Before(m, l)}) = i - 1]

IsSorted(labels) == \A i \in 1..Len(labels), j \in 1..Len(labels) : i < j => Before(labels[i], labels[j])

\* a dictionary literal: its keys in the order written, and their values
Dict(keys, values) == [keys |-> keys, values |-> values]

\* pd.Series(data=d, name=name): the keys of d are the index
pd_Series(d, name) == [name |-> name, index |-> d.keys, values |-> d.values]

\* the value a series or dictionary holds for a label, NaN when it has none
Aligned_zero(keys, values, l) == IF Has(keys, l) THEN values[Position(keys, l)] ELSE Float(0)

Aligned(keys, values, l) == IF Has(keys, l) THEN values[Position(keys, l)] ELSE NaN

\* pd.DataFrame(data=[s1, s2]): one row per series, labelled by its name;
\* the columns are the labels of the series in the order they first occur
DataFrame_rows(ss) ==
  LET columns == Union(ss[1].index, ss[2].index)
  IN [index |-> [i \in 1..Len(ss) |-> ss[i].name], columns |-> columns,
      at |-> [i \in 1..Len(ss) |-> [j \in 1..Len(columns) |->
                Aligned(ss[i].index, ss[i].values, columns[j])]]]

\* pd.DataFrame(data={n1: d1, n2: d2}): one column per dictionary, labelled
\* by its key; the index is the sorted union of the keys of the dictionaries
DataFrame_columns(names, ds) ==
  LET index == sorted(Union(ds[1].keys, ds[2].keys))
  IN [index |-> index, columns |-> names,
      at |-> [i \in 1..Len(index) |-> [j \in 1..Len(ds) |->
                Aligned(ds[j].keys, ds[j].values, index[i])]]]

\* df.T
transpose(df) ==
  [index |-> df.columns, columns |-> df.index,
   at |-> [i \in 1..Len(df.columns) |-> [j \in 1..Len(df.index) |-> df.at[j][i]]]]

\* s.iloc[k], df.iloc[k], df.iloc[:,k] with k counted from 0
iloc_from_one(s, k) == s.values[k]

iloc(s, k) == s.values[k + 1]

iloc_row(df, k) == [name |-> df.index[k + 1], index |-> df.columns, values |-> df.at[k + 1]]

iloc_column(df, k) ==
  [name |-> df.columns[k + 1], index |-> df.index,
   values |-> [i \in 1..Len(df.index) |-> df.at[i][k + 1]]]

\* s.loc[l], df.loc[l]
loc_label(s, l) == s.values[Position(s.index, l)]

loc_row(df, l) ==
  [name |-> l, index |-> df.columns, values |-> df.at[Position(df.index, l)]]

\* df[c] and df.loc[:,c]: the column labelled c
getitem(df, c) ==
  [name |-> c, index |-> df.index,
   values |-> [i \in 1..Len(df.index) |-> df.at[i][Position(df.columns, c)]]]

\* s.iloc[a:b]: the positions a .. b-1
iloc_slice(s, a, b) ==
  [name |-> s.name, index |-> SubSeq(s.index, a + 1, b), values |-> SubSeq(s.values, a + 1, b)]

\* s.loc[a:b]: from label a to label b, both included; a label that is not
\* in the index stands for the place it would take in a sorted index, and
\* raises KeyError in an index that is not sorted
loc_slice_open(s, a, b) ==
  LET first == IF Has(s.index, a) THEN Position(s.index, a)
               ELSE Cardinality({k \in 1..Len(s.index) : Before(s.index[k], a)}) + 1
      last  == IF Has(s.index, b) THEN Position(s.index, b) - 1
               ELSE Cardinality({k \in 1..Len(s.index) : Before(s.index[k], b)}) - 1
  IN [ok |-> (Has(s.index, a) /\ Has(s.index, b)) \/ IsSorted(s.index),
      name |-> s.name, index |-> SubSeq(s.index, first, last),
      values |-> SubSeq(s.values, first, last)]

loc_slice(s, a, b) ==
  LET first == IF Has(s.index, a) THEN Position(s.index, a)
               ELSE Cardinality({k \in 1..Len(s.index) : Before(s.index[k], a)}) + 1
      last  == IF Has(s.index, b) THEN Position(s.index, b)
               ELSE Cardinality({k \in 1..Len(s.index) : Before(s.index[k], b)})
  IN [ok |-> (Has(s.index, a) /\ Has(s.index, b)) \/ IsSorted(s.index),
      name |-> s.name, index |-> SubSeq(s.index, first, last),
      values |-> SubSeq(s.values, first, last)]

\* df.loc[r, c] = v for labels that df has
set_cell(df, r, c, v) ==
  [df EXCEPT !.at[Position(df.index, r)][Position(df.columns, c)] = v]

\* df.loc[r, :] = values: the row r is replaced, or added after the last row
set_row_first(df, r, values) ==
  IF Has(df.index, r)
  THEN [df EXCEPT !.at[Position(df.index, r)] = values]
  ELSE [df EXCEPT !.index = <<r>> \o @, !.at = <<values>> \o @]

set_row(df, r, values) ==
  IF Has(df.index, r)
  THEN [df EXCEPT !.at[Position(df.index, r)] = values]
  ELSE [df EXCEPT !.index = Append(@, r), !.at = Append(@, values)]

\* df.loc[:, c] = values: the column c is replaced, or added after the last
\* column
set_column(df, c, values) ==
  IF Has(df.columns, c)
  THEN [df EXCEPT !.at = [i \in 1..Len(df.index) |->
                            [@[i] EXCEPT ![Position(df.columns, c)] = values[i]]]]
  ELSE [df EXCEPT !.columns = Append(@, c),
                  !.at = [i \in 1..Len(df.index) |-> Append(@[i], values[i])]]

\* df.drop(index=rows, columns=cols): the frame without these labels
drop_nothing(df, rows, cols) == df

drop(df, rows, cols) ==
  LET keep_i == SelectSeq(Indices(df.index), LAMBDA i : ~Has(rows, df.index[i]))
      keep_j == SelectSeq(Indices(df.columns), LAMBDA j : ~Has(cols, df.columns[j]))
  IN [index   |-> [i \in 1..Len(keep_i) |-> df.index[keep_i[i]]],
      columns |-> [j \in 1..Len(keep_j) |-> df.columns[keep_j[j]]],
      at |-> [i \in 1..Len(keep_i) |-> [j \in 1..Len(keep_j) |-> df.at[keep_i[i]][keep_j[j]]]]]

\* ------------------------------------------------------ the pandas session
\* the keys of the two dictionary literals, in the order written, and their
\* figures in tenths of a tonne
keys2016 == <<"Estonia", "Luxembourg", "Netherlands", "Sweden">>

figures2016 == <<150, 198, 122, 56>>

keys2014 == <<"Estonia", "Luxembourg", "Netherlands", "Sweden", "Italy">>

figures2014 == <<161, 215, 117, 58, 71>>

\* the figures a dictionary may be written with: those of the notebook, or
\* one of them raised
Figures(base) ==
  {[k \in 1..Len(base) |-> base[k] + (IF k = c THEN d ELSE 0)] :
     c \in 1..Len(base), d \in 0..MaxDelta}

floats(v) == [k \in 1..Len(v) |-> Float(v[k])]

\* the cells that build, query and change the series and frames, top to
\* bottom
PandasOrder ==
  <<"dict2016", "series2016", "loc_Sweden", "iloc_3", "dict2014", "series2014",
    "df_rows", "df_T", "df_columns", "loc_Italy", "iloc_1", "getitem_2016",
    "loc_all_2016", "loc_slice", "iloc_slice", "set_cell", "df_1", "set_row",
    "df_2", "set_2006", "set_2020", "drop_row", "drop_columns", "df_3",
    "drop_inplace">>

Unbound == [kind |-> "unbound"]

Nothing == [kind |-> "nothing"]

InitPandas ==
  /\ SessionIdle
  /\ ReportIdle
  /\ ppc = 1
  /\ \E f14 \in Figures(figures2014), f16 \in Figures(figures2016) :
       ns = [figures2014 |-> f14, figures2016 |-> f16,
             emissions2016_dict |-> Unbound, emissions2016 |-> Unbound,
             emissions2014_dict |-> Unbound, emissions2014 |-> Unbound,
             df |-> Unbound]
  /\ shown = [cell \in Range(PandasOrder) |-> Nothing]

\* the names after the statements of a cell
After(cell) ==
  CASE cell = "dict2016" ->
         [ns EXCEPT !.emissions2016_dict = Dict(keys2016, floats(ns.figures2016))]
    [] cell = "series2016" ->
         [ns EXCEPT !.emissions2016 = pd_Series(ns.emissions2016_dict, 2016)]
    [] cell = "dict2014" ->
         [ns EXCEPT !.emissions2014_dict = Dict(keys2014, floats(ns.figures2014))]
    [] cell = "series2014" ->
         [ns EXCEPT !.emissions2014 = pd_Series(ns.emissions2014_dict, 2014)]
    [] cell = "df_rows" ->
         [ns EXCEPT !.df = DataFrame_rows(<<ns.emissions2014, ns.emissions2016>>)]
    [] cell = "df_columns" ->
         [ns EXCEPT !.df = DataFrame_columns(<<2014, 2016>>,
                              <<ns.emissions2014_dict, ns.emissions2016_dict>>)]
    [] cell = "set_cell" -> [ns EXCEPT !.df = set_cell(@, "Italy", 2016, Float(72))]
    [] cell = "set_row" ->
         [ns EXCEPT !.df = set_row(@, "Germany", <<Float(114), Float(114)>>)]
    [] cell = "set_2006" ->
         [ns EXCEPT !.df = set_column(@, 2006, floats(<<138, 100, 297, 135, 76, 124>>))]
    [] cell = "set_2020" -> [ns EXCEPT !.df = set_column(@, 2020, [i \in 1..Len(@.index) |-> None])]
    [] cell = "drop_inplace" ->
         [ns EXCEPT !.df = drop(@, <<"Germany">>, <<2014, 2016>>)]
    [] OTHER -> ns

\* a series as displayed, or the error of the expression
Result(r) ==
  IF r.ok THEN [name |-> r.name, index |-> r.index, values |-> r.values]
  ELSE [kind |-> "error", ename |-> "KeyError"]

\* the value of the last expression of a cell, with the names n
Displayed(cell, n) ==
  CASE cell = "loc_Sweden" -> loc_label(n.emissions2016, "Sweden")
    [] cell = "iloc_3" -> iloc(n.emissions2016, 3)
    [] cell \in {"df_rows", "df_columns", "df_1", "df_2", "df_3",
                 "set_2006", "set_2020", "drop_inplace"} -> n.df
    [] cell = "df_T" -> transpose(n.df)
    [] cell = "loc_Italy" -> loc_row(n.df, "Italy")
    [] cell = "iloc_1" -> iloc_row(n.df, 1)
    [] cell = "getitem_2016" -> getitem(n.df, 2016)
    [] cell = "loc_all_2016" -> iloc_slice(getitem(n.df, 2016), 0, Len(n.df.index))
    [] cell = "loc_slice" -> Result(loc_slice(getitem(n.df, 2016), "Estonia", "Luxembroug"))
    [] cell = "iloc_slice" -> iloc_slice(iloc_column(n.df, 1), 0, 3)
    [] cell = "drop_row" -> drop(n.df, <<"Germany">>, <<>>)
    [] cell = "drop_columns" -> drop(n.df, <<>>, <<2014, 2016>>)
    [] OTHER -> Nothing

\* the next cell is one of cells
Pending(cells) == ppc <= Len(PandasOrder) /\ PandasOrder[ppc] \in cells

\* the kernel runs the next cell: its statements, then the display of its
\* last expression
Run ==
  /\ ns' = After(PandasOrder[ppc])
  /\ shown' = [shown EXCEPT ![PandasOrder[ppc]] =
                 Displayed(PandasOrder[ppc], After(PandasOrder[ppc]))]
  /\ ppc' = ppc + 1
  /\ UNCHANGED <<session_vars, report_vars>>

\* the cells that bind a dictionary or a series
CellDefine ==
  /\ Pending({"dict2016", "series2016", "dict2014", "series2014"})
  /\ Run

\* the cells that bind df to a new frame
CellFrame ==
  /\ Pending({"df_rows", "df_columns"})
  /\ Run

\* the cells that only display the value of an expression
CellExpression ==
  /\ Pending({"loc_Sweden", "iloc_3", "df_T", "loc_Italy", "iloc_1", "getitem_2016",
              "loc_all_2016", "loc_slice", "iloc_slice", "df_1", "df_2", "df_3",
              "drop_row", "drop_columns"})
  /\ Run

\* the cells that assign through df.loc
CellSetItem ==
  /\ Pending({"set_cell", "set_row", "set_2006", "set_2020"})
  /\ Run

\* df.drop(columns=[2014,2016],index='Germany',inplace=True); df
CellDropInplace ==
  /\ Pending({"drop_inplace"})
  /\ Run

NextPandas ==
  \/ CellDefine
  \/ CellFrame
  \/ CellExpression
  \/ CellSetItem
  \/ CellDropInplace

SpecPandas == InitPandas /\ [][NextPandas]_vars

\* ============================================================== properties
\* the data rows of the file of concentration c, as the file has them
FileRows(c) ==
  LET lines == files[Path(c)]
  IN [k \in 1..(Len(lines) - 9) |-> lines[k + 9]]

FileT(c) == LET rows == FileRows(c) IN [k \in 1..Len(rows) |-> rows[k].c0]

FileF(c) == LET rows == FileRows(c) IN [k \in 1..Len(rows) |-> rows[k].c1]

\* the first row that attains the maximum count
FirstPeak(F) ==
  CHOOSE a \in 1..Len(F) :
    (\A j \in 1..Len(F) : F[j] <= F[a]) /\ (\A j \in 1..(a - 1) : F[j] < F[a])

PeakCount(F) == Cardinality({j \in 1..Len(F) : F[j] = F[FirstPeak(F)]})

\* the cell has run in this session
Ran(cell) == \E k \in 1..(pc - 1) : k <= Len(CellOrder) /\ CellOrder[k] = cell

\* the dataframe cell has appended the rows of the k-th concentration
Appended(k) ==
  /\ "dataframe" \notin errors
  /\ \/ Ran("dataframe")
     \/ At("dataframe") /\ k <= loop

Conc == 1..Len(concs)

\* C1: the rows labelled c in the combined dataframe are the rows of file c
\* from the first row that attains the maximum count to the last row, in
\* file order, each time paired with its own count (the times of a block
\* differ as the file's times do); no other label occurs in the frame.
C1_RowsFromPeak ==
  /\ \A k \in Conc : Appended(k) =>
       LET c == concs[k]
           t == FileT(c)
           F == FileF(c)
           a == FirstPeak(F)
           b == loc(data, c)
       IN /\ Len(b) = Len(F) - a + 1
          /\ \A j \in 1..Len(b) :
               /\ b[j].F = F[a + j - 1]
               /\ b[j].t - b[1].t = t[a + j - 1] - t[a]
  /\ \A j \in 1..Len(data.index) : \E k \in Conc : data.index[j] = concs[k] /\ Appended(k)

\* a file whose maximum is attained twice, first after the first row, has
\* been appended with at least two rows kept
C1_Witness ==
  /\ Ran("dataframe")
  /\ \E k \in Conc :
       /\ FirstPeak(FileF(concs[k])) > 1
       /\ PeakCount(FileF(concs[k])) > 1
       /\ Len(loc(data, concs[k])) >= 2

\* C9: the first row of every concentration has t = 0 and the curve's
\* maximum count; every kept row's t is its file time minus the file time
\* of the maximum row; t >= 0 in every row when the file's times are
\* non-decreasing.
C9_TimeZeroAtPeak ==
  \A k \in Conc : Appended(k) =>
    LET c == concs[k]
        t == FileT(c)
        F == FileF(c)
        a == FirstPeak(F)
        b == loc(data, c)
    IN /\ Len(b) >= 1
       /\ b[1].t = 0
       /\ b[1].F = Max(F)
       /\ \A j \in 1..Len(b) : b[j].t = t[a + j - 1] - t[a]
       /\ IsNonDecreasing(t) => \A j \in 1..Len(b) : b[j].t >= 0

\* a file with non-decreasing times whose peak is after the first row at a
\* time above zero, with a row kept behind the peak at a later time
C9_Witness ==
  /\ Ran("dataframe")
  /\ \E k \in Conc :
       LET c == concs[k]
           a == FirstPeak(FileF(c))
       IN /\ IsNonDecreasing(FileT(c))
          /\ a > 1 /\ a < Len(FileF(c))
          /\ FileT(c)[a] > 0
          /\ loc(data, c)[2].t > 0

\* C8: every row of the combined dataframe is labelled with a
\* concentration of concs and holds errF with errF * errF = F; the weight
\* that divides each residual of the single-curve and of the global
\* residual function is the errF of the row whose count and time the
\* residual is computed from.
FitRows == IF res.fit = "single" THEN loc(data, 0) ELSE data.rows

C8_ErrorIsSqrtAndWeight ==
  /\ \A j \in 1..Len(data.rows) :
       /\ data.rows[j].errF * data.rows[j].errF = data.rows[j].F
       /\ data.index[j] \in Range(concs)
  /\ res.fit /= "none" =>
       LET rows == FitRows
       IN /\ Len(res.fun) = Len(rows)
          /\ \A j \in 1..Len(res.fun) :
               /\ res.fun[j].w = rows[j].errF
               /\ res.fun[j].y = rows[j].F
               /\ res.fun[j].f.x = rows[j].t
               /\ res.fun[j].w * res.fun[j].w = res.fun[j].y

\* both fits have run, on rows with a count above 1
C8_Witness ==
  /\ res.fit = "global"
  /\ \E j \in 1..Len(out) : out[j].fit = "single"
  /\ \E j \in 1..Len(res.fun) : res.fun[j].y > 1 /\ res.fun[j].w > 1
  /\ \E j \in 1..Len(loc(data, 0)) : loc(data, 0)[j].F > 1

\* C5: every loading cell that has run has read the file
\* data/fluorescence/quencher_<c>.txt for each c in concs, five reads in
\* the order of concs; every read skips the first 9 lines and takes the
\* remaining lines as rows of two numbers, column 0 the time and column 1
\* the count; the three cells read the same files in the same way, and what
\* they draw or store is taken from those columns.  The masked plot cell
\* breaks it: it stops at the first curve whose selection raises, with the
\* files after that one unread.
C5_SameFilesSameFormat ==
  /\ \A cell \in LoadingCells :
       /\ \A k \in 1..Len(reads[cell]) :
            LET r == reads[cell][k]
                c == concs[k]
            IN /\ k <= Len(concs)
               /\ r.path = <<"data/fluorescence/quencher_",
                             <<concs[k] \div 10, concs[k] % 10>>, ".txt">>
               /\ r.skiprows = 9
               /\ r.ok
               /\ r.t = FileT(c)
               /\ r.F = FileF(c)
       /\ Ran(cell) => Len(reads[cell]) = Len(concs)
  /\ \A k \in Conc :
       \A c1 \in LoadingCells, c2 \in LoadingCells :
         (k <= Len(reads[c1]) /\ k <= Len(reads[c2])) => reads[c1][k] = reads[c2][k]
  /\ \A k \in 1..Len(plots["plot_raw"]) :
       /\ plots["plot_raw"][k].x = FileT(concs[k])
       /\ plots["plot_raw"][k].y = FileF(concs[k])
  /\ \A k \in 1..Len(plots["plot_masked"]) :
       LET q == plots["plot_masked"][k]
           t == FileT(concs[k])
           F == FileF(concs[k])
       IN \A j \in 1..Len(q.keep) :
            /\ q.y[j] = F[q.keep[j]]
            /\ q.x[j] = t[q.keep[j]] - t[q.keep[1]]
  /\ Ran("dataframe") /\ "dataframe" \notin errors =>
       \A k \in Conc :
          LET b == loc(data, concs[k])
              F == FileF(concs[k])
          IN \A j \in 1..Len(b) : \E i \in 1..Len(F) : b[j].F = F[i]

\* the position of a label in concs
ConcPos(c) == CHOOSE k \in Conc : concs[k] = c

\* C6: an output artifact exists only after the rows of all five
\* concentrations have been appended; the pickle and the CSV file are
\* written together and are dumps of the combined dataframe, which has the
\* columns t, F, errF, the index conc and one block of rows per
\* concentration in the order of concs.
C6_ArtifactsAfterAllAppended ==
  (pickle.written \/ csv.written) =>
    /\ pickle.written /\ csv.written
    /\ \A k \in Conc : Appended(k) /\ loc(pickle.frame, concs[k]) /= <<>>
    /\ pickle.frame = data
    /\ read_csv(csv.dump) = data
    /\ csv.dump.header = <<"conc", "t", "F", "errF">>
    /\ Len(csv.dump.lines) = Len(data.rows)
    /\ data.columns = <<"t", "F", "errF">>
    /\ data.index_name = "conc"
    /\ \A i \in 1..(Len(data.index) - 1) :
         ConcPos(data.index[i]) <= ConcPos(data.index[i + 1])

\* both artifacts are written, of a frame that has more rows than labels
C6_Witness ==
  /\ pickle.written /\ csv.written
  /\ Len(pickle.frame.rows) > Len(concs)
  /\ Len(csv.dump.lines) > Len(concs)

\* the number of residuals of the curves before curve i
RECURSIVE Offset(_, _)
Offset(ys, i) == IF i <= 1 THEN 0 ELSE Offset(ys, i - 1) + Len(ys[i - 1])

\* the residuals of curve i inside a stacked array
Block(r, ys, i) == SubSeq(r, Offset(ys, i) + 1, Offset(ys, i) + Len(ys[i]))

\* C2: the global residuals function returns the concatenation, for curve
\* i = 0..4 in this order, of (args[1][i] - decay(args[0][i], (p[0], p[1],
\* p[2], p[3+i]))) / args[2][i]; its length is the sum of the five curve
\* lengths; a change of p[0], p[1] or p[2] changes the residuals of every
\* curve, a change of p[3+i] those of curve i and of no other curve.
C2_StackedResiduals ==
  res.fit = "global" =>
    LET x == args.cols[1]
        y == args.cols[2]
        w == args.cols[3]
    IN /\ Len(x) = 5 /\ Len(y) = 5 /\ Len(w) = 5
       /\ Len(res.fun) = Len(y[1]) + Len(y[2]) + Len(y[3]) + Len(y[4]) + Len(y[5])
       /\ \A i \in 1..5 :
            LET o == Offset(y, i)
            IN \A k \in 1..Len(y[i]) :
                 /\ res.fun[o + k] =
                      [y |-> y[i][k],
                       f |-> [f |-> "decay", x |-> x[i][k],
                              param |-> <<res.x[1], res.x[2], res.x[3], res.x[3 + i]>>],
                       w |-> w[i][k]]
                 /\ res.first[o + k].f.param =
                      <<param0[1], param0[2], param0[3], param0[3 + i]>>
       /\ \A i \in 1..5 :
            (Block(res.fun, y, i) = Block(res.first, y, i))
              <=> (\A j \in {1, 2, 3, 3 + i} : res.x[j] = param0[j])

\* the global fit returned a point that differs from x0 in the parameter of
\* the second curve only, on curves of two or more rows
C2_Witness ==
  /\ res.fit = "global"
  /\ res.x[5] /= param0[5]
  /\ \A i \in 1..5 : Len(args.cols[2][i]) >= 1
  /\ Len(args.cols[2][1]) /= Len(args.cols[2][2])
  /\ Block(res.fun, args.cols[2], 2) /= Block(res.first, args.cols[2], 2)
  /\ Block(res.fun, args.cols[2], 3) = Block(res.first, args.cols[2], 3)

\* C3: param0, lbound and ubound have length 3 + len(concs) = 8; positions
\* 0..2 hold the shared parameters and position 3+i the parameter m of
\* concs[i]; the results table has 8 labels and row k of the table holds
\* position k of res.x under the label of the parameter kept there.
C3_ParameterLayout ==
  /\ Len(param0) = 3 + Len(concs) /\ Len(param0) = 8
  /\ Len(lbound) = 8 /\ Len(ubound) = 8
  /\ Ran("fit_global") => "fit_global" \notin errors /\ Len(res.x) = 8
  /\ Ran("table_global") => "table_global" \notin errors /\ table.ok
  /\ table.ok =>
       /\ Len(table.index) = 8 /\ table.Value = res.x
       /\ table.index[1] = "$F(0)$ (counts)"
       /\ table.index[2] = "$\tau_0$ (ns)"
       /\ table.index[3] = "$k_q$ (ns$^{-1}$)"
       /\ \A i \in Conc :
            /\ table.index[3 + i] = <<"$m_0$", "$m_1$", "$m_2$", "$m_3$", "$m_4$">>[i]
            /\ args.labels[i] = concs[i]
            /\ LET block == Block(res.fun, args.cols[2], i)
                   counts == Range(Series(data, concs[i], "F"))
               IN \A k \in 1..Len(block) :
                    /\ block[k].f.param[1] = table.Value[1]
                    /\ block[k].f.param[2] = table.Value[2]
                    /\ block[k].f.param[3] = table.Value[3]
                    /\ block[k].f.param[4] = table.Value[3 + i]
                    /\ block[k].y \in counts

\* the table of the global fit is built, from a solution whose eight values
\* are not all those of param0
C3_Witness ==
  /\ table.ok
  /\ res.fit = "global"
  /\ Len(table.Value) = 8
  /\ table.Value /= param0

\* the outputs before position k that show the success flag of the fit
FlagShownBefore(k, fit) ==
  \E j \in 1..(k - 1) : out[j].kind = "print_success" /\ out[j].fit = fit

UsesOfX == {"plot_x", "print_x", "table_x"}

\* C4 as claimed: for the single-curve fit and for the global fit, the
\* success flag of the result is output before the parameters of that
\* result are used.
C4_FlagBeforeAnyUse ==
  \A k \in 1..Len(out) : out[k].kind \in UsesOfX => FlagShownBefore(k, out[k].fit)

\* C4 amended: in top-to-bottom execution the success flag is output for
\* the single-curve fit only, by the cell after the fit cell: after the fit
\* cell has drawn the fitted curve from res.x and before the best-fit
\* parameters are printed or put in a table; the success flag of the global
\* fit is never output, while its parameters are plotted and tabulated.
C4_FlagOfSingleFitOnly ==
  /\ \A k \in 1..Len(out) :
       /\ out[k].kind = "print_success" =>
            /\ out[k].fit = "single"
            /\ \E j \in 1..(k - 1) : out[j].kind = "plot_x" /\ out[j].fit = "single"
       /\ (out[k].fit = "single" /\ out[k].kind \in {"print_x", "table_x"}) =>
            FlagShownBefore(k, "single")
       /\ (out[k].fit = "single" /\ out[k].kind = "plot_x") =>
            ~FlagShownBefore(k, "single")
       /\ out[k].fit = "global" => ~FlagShownBefore(k, "global")
  /\ (Done /\ errors \subseteq {"plot_masked", "decrypt_1", "rpy2_text", "decrypt_2"}) =>
       /\ \E k \in 1..Len(out) : out[k].kind = "print_success"
       /\ \E k \in 1..Len(out) : out[k].kind = "plot_x" /\ out[k].fit = "global"
       /\ \E k \in 1..Len(out) : out[k].kind = "table_x" /\ out[k].fit = "global"

\* the notebook has run to its end, the global fit did not converge and
\* its parameters are in the results table
C4_Witness ==
  /\ Done
  /\ res.fit = "global" /\ ~res.success
  /\ table.ok
  /\ \E k \in 1..Len(out) : out[k].kind = "print_success" /\ out[k].fit = "single"

\* C7 as claimed: the curves passed to the global least_squares call are
\* those of the concentrations 0.1, 0.2, 0.5, 1 and 1.5 mM, and the curve
\* fitted alone is the one of 0 mM.
C7_GlobalFitConcentrations ==
  /\ res.fit = "global" => Range(args.labels) = Range(DocConcs)
  /\ res.fit = "single" => args.labels = <<0>>

\* C10 as claimed: in the masked plot a row of a curve is dropped if and
\* only if its time is earlier than the time of the row with the maximum
\* count; the maximum row and every later row are kept.
C10_MaskDropsOnlyEarlier ==
  \A k \in 1..Len(plots["plot_masked"]) :
    LET q == plots["plot_masked"][k]
        t == FileT(concs[k])
        a == FirstPeak(FileF(concs[k]))
    IN \A j \in 1..Len(t) : (j \notin Range(q.keep)) <=> (t[j] < t[a])

\* ------------------------------------------------- reporting on a result
\* the residual sum of squares of a result
RECURSIVE SumOfSquares(_)
SumOfSquares(r) ==
  IF r = <<>> THEN 0 ELSE r[Len(r)] * r[Len(r)] + SumOfSquares(SubSeq(r, 1, Len(r) - 1))

Sign(n) == IF n > 0 THEN 1 ELSE IF n < 0 THEN 0 - 1 ELSE 0

\* two quotients are the same number (the same inf or nan when a
\* denominator is 0)
SameNumber(a, b) ==
  IF a.den = 0 \/ b.den = 0
  THEN a.den = b.den /\ Sign(a.num) = Sign(b.num)
  ELSE a.num * b.den = b.num * a.den

\* RSS / (n - p) of the result the reporting cells read
VarianceOf(b) == Quotient(SumOfSquares(b.fun), Len(b.fun) - Len(b.x))

VarianceCells == {"variance", "p_and_err", "print_chi2", "r_variance"}

\* C11 as claimed: the residual variance output by the Python cell, by
\* error_analysis (for the single-curve and for the global fit) and by the
\* R cell is the residual sum of squares of the fit divided by n - p.
C11_VarianceIsRssOverDof ==
  \A k \in 1..Len(report) :
    report[k].cell \in VarianceCells => SameNumber(report[k].value, VarianceOf(bundle))

\* the part of C11 that the Python cells satisfy
C11_PythonCellsOnly ==
  \A k \in 1..Len(report) :
    report[k].cell \in VarianceCells \ {"r_variance"} =>
      SameNumber(report[k].value, VarianceOf(bundle))

\* the singular values of the result that error_analysis keeps
KeptCount(errs) == Len(errs[1].sqrt.terms)

\* C12: error_analysis(res) returns the pair (errors, s_sq) with
\* s_sq = 2 * res.cost / (res.fun.size - res.x.size) and errors holding one
\* entry per fit parameter: entry j is the square root of the j-th diagonal
\* element of pcov, built from the component j of the kept right-singular
\* vectors, whatever number of singular values is discarded; the table of
\* the global fit gets one Error per Value.
C12_ErrorAnalysisPair ==
  \A k \in 1..Len(report) :
    /\ report[k].cell \in {"p_and_err", "print_chi2"} =>
         SameNumber(report[k].value,
                    Quotient(2 * bundle.cost.num,
                             bundle.cost.den * (Len(bundle.fun) - Len(bundle.x))))
    /\ report[k].cell \in {"p_and_err", "table_global"} =>
         LET errs == report[k].errors
         IN /\ Len(errs) = Len(bundle.x)
            /\ \A j \in 1..Len(errs) :
                 /\ errs[j].sqrt.s_sq = error_analysis(bundle)[2]
                 /\ \A i \in 1..Len(errs[j].sqrt.terms) :
                      /\ errs[j].sqrt.terms[i].left.component = j
                      /\ errs[j].sqrt.terms[i].right.component = j
    /\ report[k].cell = "table_global" =>
         /\ report[k].table.ok
         /\ Len(report[k].table.Value) = 8 /\ Len(report[k].table.Error) = 8
         /\ report[k].table.Value = bundle.x

\* error_analysis has been applied to a result of the single-curve fit and
\* to one of the global fit, of which it discarded some singular values but
\* not all
C12_Witness ==
  \E k \in 1..Len(report) :
    /\ report[k].cell \in {"p_and_err", "table_global"}
    /\ KeptCount(report[k].errors) >= 1
    /\ KeptCount(report[k].errors) < Len(bundle.jac.sv)
    /\ Len(bundle.jac.sv) <= Len(bundle.x)
    /\ bundle.cost.num > 0

\* the largest b with 2^b <= M
FloorLog2(M) == CHOOSE b \in 0..30 : 2^b <= M /\ M < 2 * 2^b

\* the singular value is strictly above eps * max(res.jac.shape) * s[0]
AboveThreshold(b, i) ==
  LET s == b.jac.sv
  IN /\ ~s[i].zero
     /\ s[i].e - s[1].e + 52 > FloorLog2(Max(b.jac.shape))

\* the singular value is exactly eps * max(res.jac.shape) * s[0]
AtThreshold(b, i) ==
  LET s == b.jac.sv
      M == Max(b.jac.shape)
  IN ~s[i].zero /\ 2^FloorLog2(M) = M /\ s[i].e - s[1].e + 52 = FloorLog2(M)

\* C19: error_analysis keeps exactly the singular values strictly greater
\* than eps * max(res.jac.shape) * s[0]; they are the leading ones, and the
\* i-th term of every element of pcov divides the components of the i-th
\* right-singular vector by the square of the i-th singular value.
C19_KeptValuesPairedWithVectors ==
  \A k \in 1..Len(report) :
    report[k].cell \in {"p_and_err", "table_global"} =>
      LET sv == bundle.jac.sv
          K  == KeptCount(report[k].errors)
      IN /\ K = Cardinality({i \in 1..Len(sv) : AboveThreshold(bundle, i)})
         /\ \A i \in 1..Len(sv) : AboveThreshold(bundle, i) <=> i <= K
         /\ \A j \in 1..Len(report[k].errors) :
              LET terms == report[k].errors[j].sqrt.terms
              IN /\ Len(terms) = K
                 /\ \A i \in 1..K :
                      /\ terms[i].left.vector = i
                      /\ terms[i].right.vector = i
                      /\ terms[i].s = sv[i]

\* error_analysis has run on a Jacobian with kept singular values and a
\* discarded one that is equal to the threshold
C19_Witness ==
  \E k \in 1..Len(report) :
    /\ report[k].cell \in {"p_and_err", "table_global"}
    /\ KeptCount(report[k].errors) >= 1
    /\ \E i \in 1..Len(bundle.jac.sv) :
         i > KeptCount(report[k].errors) /\ AtThreshold(bundle, i)

\* C20: the first table formats the 2 best-fit values into its 2
\* conversions, F(0) then tau_0; p_and_err is (value_0, error_0, value_1,
\* error_1) and the second table formats it into its 4 conversions, so each
\* row shows a parameter's value under Value and its own error under Error.
C20_TableArguments ==
  \A k \in 1..Len(report) :
    /\ report[k].cell = "table_single" =>
         LET c == report[k].table.cells
         IN /\ report[k].table.ok
            /\ Len(c) = 2 /\ Len(bundle.x) = 2
            /\ c[1].row = "$F(0)$ (counts)" /\ c[1].column = "Value" /\ c[1].arg = bundle.x[1]
            /\ c[2].row = "$\\tau_0$ (ns)" /\ c[2].column = "Value" /\ c[2].arg = bundle.x[2]
    /\ report[k].cell = "p_and_err" =>
         LET c == report[k].table.cells
             e == error_analysis(bundle)[1]
         IN /\ report[k].ok /\ report[k].table.ok
            /\ report[k].p_and_err = <<bundle.x[1], e[1], bundle.x[2], e[2]>>
            /\ Len(c) = 4
            /\ c[1].row = "$F(0)$ (counts)" /\ c[1].column = "Value" /\ c[1].arg = bundle.x[1]
            /\ c[2].row = "$F(0)$ (counts)" /\ c[2].column = "Error" /\ c[2].arg = e[1]
            /\ c[3].row = "$\\tau_0$ (ns)" /\ c[3].column = "Value" /\ c[3].arg = bundle.x[2]
            /\ c[4].row = "$\\tau_0$ (ns)" /\ c[4].column = "Error" /\ c[4].arg = e[2]
            /\ \A j \in 1..2 : \A i \in 1..Len(e[j].sqrt.terms) :
                 e[j].sqrt.terms[i].left.component = j

\* both tables of a single-curve result are formatted, its two values differ
\* and its two errors differ
C20_Witness ==
  /\ \E k \in 1..Len(report) : report[k].cell = "table_single" /\ report[k].table.ok
  /\ \E k \in 1..Len(report) :
       /\ report[k].cell = "p_and_err" /\ report[k].table.ok
       /\ report[k].p_and_err[2] /= report[k].p_and_err[4]
  /\ bundle.x[1] /= bundle.x[2]

\* C13 as claimed: the Task 2 snippet, run on the pickle the dataframe cell
\* wrote, finds every label it reads and yields args as three lists of 5
\* arrays, one per concentration.
C13_Task2ArgsFromPickle ==
  pickle.written =>
    LET r == Task2Snippet(pickle.frame)
    IN /\ r.ok
       /\ Len(r.args) = 3
       /\ \A j \in 1..Len(r.args) : Len(r.args[j]) = Len(concs)

\* ------------------------------------------------ the pandas lecture notebook
\* the cell has run
Executed(cell) == ppc > Position(PandasOrder, cell)

\* the value a frame holds at row label r and column label c
cell_at(df, r, c) == df.at[Position(df.index, r)][Position(df.columns, c)]

\* C14: df.drop(index='Germany') and df.drop(columns=[2014,2016]) leave df
\* as it was, with its 6 rows and 4 columns, and the df shown afterwards is
\* the df shown before them; df.drop(columns=[2014,2016], index='Germany',
\* inplace=True) takes exactly the row Germany and the columns 2014 and 2016
\* out of df, and every cell that remains keeps its value.
C14_DropOnlyInPlace ==
  [][/\ Pending({"drop_row", "drop_columns", "df_3"}) =>
          /\ ns'.df = ns.df
          /\ Len(ns'.df.index) = 6
          /\ Len(ns'.df.columns) = 4
     /\ Pending({"df_3"}) => shown'["df_3"] = shown["set_2020"]
     /\ Pending({"drop_inplace"}) =>
          /\ ns'.df.index = SelectSeq(ns.df.index, LAMBDA l : l /= "Germany")
          /\ ns'.df.columns = SelectSeq(ns.df.columns, LAMBDA c : c \notin {2014, 2016})
          /\ Len(ns'.df.index) = 5
          /\ Len(ns'.df.columns) = 2
          /\ \A r \in Range(ns'.df.index), c \in Range(ns'.df.columns) :
               cell_at(ns'.df, r, c) = cell_at(ns.df, r, c)]_vars

\* every cell has run: the two drops without inplace showed smaller frames,
\* df was shown whole after them, and the drop in place shrank df
C14_Witness ==
  /\ Executed("drop_inplace")
  /\ shown["drop_row"].index = <<"Estonia", "Italy", "Luxembourg", "Netherlands", "Sweden">>
  /\ shown["drop_columns"].columns = <<2006, 2020>>
  /\ Len(shown["df_3"].index) = 6
  /\ Len(shown["df_3"].columns) = 4
  /\ ns.df.index = <<"Estonia", "Italy", "Luxembourg", "Netherlands", "Sweden">>
  /\ ns.df.columns = <<2006, 2020>>

\* C15: an assignment through df.loc changes only what it addresses.
\* df.loc['Italy',2016] = 7.2 changes that one cell; df.loc['Germany',:] =
\* [11.4, 11.4], for a label df lacks, adds Germany as the last row;
\* df.loc[:,2006] = [...] and df.loc[:,2020] = None, for labels df lacks, add
\* the column as the last one; in each case every other cell, the order of
\* the rows there were and the order of the columns there were stay.
C15_LocAssignmentIsLocal ==
  [][/\ Pending({"set_cell"}) =>
          /\ Has(ns.df.index, "Italy") /\ Has(ns.df.columns, 2016)
          /\ ns'.df.index = ns.df.index
          /\ ns'.df.columns = ns.df.columns
          /\ cell_at(ns'.df, "Italy", 2016) = Float(72)
          /\ \A r \in Range(ns.df.index), c \in Range(ns.df.columns) :
               <<r, c>> /= <<"Italy", 2016>> => cell_at(ns'.df, r, c) = cell_at(ns.df, r, c)
     /\ Pending({"set_row"}) =>
          /\ ~Has(ns.df.index, "Germany")
          /\ ns'.df.index = Append(ns.df.index, "Germany")
          /\ ns'.df.columns = ns.df.columns
          /\ ns'.df.at[Len(ns'.df.index)] = <<Float(114), Float(114)>>
          /\ \A r \in Range(ns.df.index), c \in Range(ns.df.columns) :
               cell_at(ns'.df, r, c) = cell_at(ns.df, r, c)
     /\ \A c \in {2006, 2020} :
          Pending({IF c = 2006 THEN "set_2006" ELSE "set_2020"}) =>
            /\ ~Has(ns.df.columns, c)
            /\ ns'.df.columns = Append(ns.df.columns, c)
            /\ ns'.df.index = ns.df.index
            /\ \A r \in Range(ns.df.index), d \in Range(ns.df.columns) :
                 cell_at(ns'.df, r, d) = cell_at(ns.df, r, d)
            /\ \A i \in 1..Len(ns.df.index) :
                 ns'.df.at[i][Len(ns'.df.columns)] =
                   IF c = 2006 THEN Float(<<138, 100, 297, 135, 76, 124>>[i]) ELSE None]_vars

\* the four assignments have run: Italy has a figure for 2016, Germany is
\* the sixth row and 2006, 2020 are the third and fourth column
C15_Witness ==
  /\ Executed("set_2020")
  /\ ~Executed("drop_inplace")
  /\ cell_at(shown["df_columns"], "Italy", 2016) = NaN
  /\ cell_at(ns.df, "Italy", 2016) = Float(72)
  /\ ns.df.index[6] = "Germany"
  /\ ns.df.columns = <<2014, 2016, 2006, 2020>>
  /\ cell_at(ns.df, "Germany", 2020) = None

\* C16: a label slice of .loc includes its end label and a position slice
\* of .iloc excludes its end position. On df built column-wise, whose row
\* labels are sorted, df.loc['Estonia':'Luxembroug',2016] (the end label is
\* not a label of df) and df.iloc[0:3,1] both show the rows Estonia, Italy,
\* Luxembourg of column 2016, in this order; the label slice that ends at
\* 'Luxembourg' shows the same rows, and the position slice 0:2 stops before
\* Luxembourg.
C16_LabelSliceInclusive ==
  Executed("iloc_slice") =>
    LET F == shown["df_columns"]
        expected == [name |-> 2016,
                     index |-> <<"Estonia", "Italy", "Luxembourg">>,
                     values |-> <<cell_at(F, "Estonia", 2016), cell_at(F, "Italy", 2016),
                                  cell_at(F, "Luxembourg", 2016)>>]
    IN /\ IsSorted(F.index)
       /\ ~Has(F.index, "Luxembroug")
       /\ shown["loc_slice"] = expected
       /\ shown["iloc_slice"] = expected
       /\ Result(loc_slice(getitem(F, 2016), "Estonia", "Luxembourg")) = expected
       /\ iloc_slice(iloc_column(F, 1), 0, 2).index = <<"Estonia", "Italy">>

\* both slices have been shown and hold three rows, the second without a
\* figure
C16_Witness ==
  /\ Executed("iloc_slice")
  /\ shown["loc_slice"].index = <<"Estonia", "Italy", "Luxembourg">>
  /\ shown["iloc_slice"].values[2] = NaN
  /\ shown["iloc_slice"].values[3] = Float(ns.figures2016[2])

\* C17: a lookup by label and a lookup by position agree. A label that sits
\* at position k of a series or of the rows of a frame gives with .loc what
\* k gives with .iloc: emissions2016.loc['Sweden'] and emissions2016.iloc[3]
\* show the same value, df.loc['Italy'] and df.iloc[1] the same row; df[2016]
\* and df.loc[:,2016] show the same column.
C17_LabelAndPositionAgree ==
  /\ Executed("iloc_3") =>
       /\ ns.emissions2016.index[3 + 1] = "Sweden"
       /\ shown["loc_Sweden"] = shown["iloc_3"]
       /\ shown["iloc_3"] = Float(ns.figures2016[4])
       /\ \A k \in 0..(Len(ns.emissions2016.index) - 1) :
            loc_label(ns.emissions2016, ns.emissions2016.index[k + 1]) = iloc(ns.emissions2016, k)
  /\ Executed("iloc_1") =>
       LET F == shown["df_columns"]
       IN /\ F.index[1 + 1] = "Italy"
          /\ shown["loc_Italy"] = shown["iloc_1"]
          /\ shown["iloc_1"] = [name |-> "Italy", index |-> <<2014, 2016>>,
                                values |-> <<Float(ns.figures2014[5]), NaN>>]
          /\ \A k \in 0..(Len(F.index) - 1) : loc_row(F, F.index[k + 1]) = iloc_row(F, k)
  /\ Executed("loc_all_2016") =>
       /\ shown["getitem_2016"] = shown["loc_all_2016"]
       /\ shown["getitem_2016"].name = 2016
       /\ shown["getitem_2016"].index = shown["df_columns"].index
       /\ \A r \in Range(shown["df_columns"].index) :
            shown["getitem_2016"].values[Position(shown["df_columns"].index, r)] =
              cell_at(shown["df_columns"], r, 2016)

\* the six lookups have been shown, the value of Sweden differing from the
\* values of the other labels
C17_Witness ==
  /\ Executed("loc_all_2016")
  /\ shown["loc_Sweden"] = Float(ns.figures2016[4])
  /\ \A k \in 1..3 : ns.figures2016[k] /= ns.figures2016[4]
  /\ shown["loc_Italy"].name = "Italy"
  /\ Len(shown["loc_all_2016"].values) = 5

\* the value a dictionary literal holds for a key
written(keys, figures, l) == Float(figures[Position(keys, l)])

\* C18: the frame built from emissions2014 (5 countries) and emissions2016
\* (4 countries) has the union of their keys as labels, holds the value of
\* each record where the record has the key, and holds NaN exactly at
\* (2016, Italy), the one key a record lacks; the frame built row-wise and
\* transposed holds, at every pair of labels, the value the frame built
\* column-wise from the dictionary keyed by year holds.
C18_UnionOfKeysWithNaN ==
  /\ Executed("df_rows") =>
       LET F == shown["df_rows"]
       IN /\ F.index = <<2014, 2016>>
          /\ Range(F.columns) = Range(keys2014) \cup Range(keys2016)
          /\ Len(F.columns) = Cardinality(Range(keys2014) \cup Range(keys2016))
          /\ \A c \in Range(F.columns) :
               /\ cell_at(F, 2014, c) = written(keys2014, ns.figures2014, c)
               /\ cell_at(F, 2016, c) = IF Has(keys2016, c)
                                         THEN written(keys2016, ns.figures2016, c) ELSE NaN
          /\ {<<r, c>> \in Range(F.index) \X Range(F.columns) : cell_at(F, r, c) = NaN}
               = {<<2016, "Italy">>}
  /\ Executed("df_columns") =>
       LET T == shown["df_T"]
           G == shown["df_columns"]
       IN /\ T.columns = G.columns
          /\ Range(T.index) = Range(G.index)
          /\ Len(T.index) = Len(G.index)
          /\ \A r \in Range(G.index), c \in Range(G.columns) :
               cell_at(T, r, c) = cell_at(G, r, c)
          /\ {<<r, c>> \in Range(G.index) \X Range(G.columns) : cell_at(G, r, c) = NaN}
               = {<<"Italy", 2016>>}

\* the three frames have been shown; the row-wise one has Italy as its last
\* column and the column-wise one has Italy as its second row
C18_Witness ==
  /\ Executed("df_columns")
  /\ shown["df_rows"].columns[5] = "Italy"
  /\ shown["df_T"].index[5] = "Italy"
  /\ shown["df_columns"].index[2] = "Italy"
  /\ cell_at(shown["df_columns"], "Italy", 2016) = NaN
  /\ cell_at(shown["df_columns"], "Italy", 2014) = Float(ns.figures2014[5])

\* ------------------------------------------ the two preprocessings compared
\* the times of a curve increase from each row to the next
StrictlyIncreasing(t) == \A j \in 1..(Len(t) - 1) : t[j] < t[j + 1]

\* C24 as claimed: for a curve whose times are strictly increasing and
\* whose maximum count occurs in one row only, the masked plot cell and the
\* dataframe cell keep the same rows of the file and give each kept row the
\* same shifted time.
C24_MaskAndArgmaxKeepSameRows ==
  \A k \in 1..Len(concs) :
    LET t == FileT(concs[k])
        F == FileF(concs[k])
    IN (/\ StrictlyIncreasing(t)
        /\ PeakCount(F) = 1
        /\ k <= Len(plots["plot_masked"])
        /\ Appended(k)) =>
         LET q == plots["plot_masked"][k]
             a == FirstPeak(F)
         IN /\ q.keep = [j \in 1..(Len(t) + 1 - a) |-> a + j - 1]
            /\ q.x = Series(data, concs[k], "t")

\* ------------------------------------------- the names at the time of a fit
\* the three series of the curve of concentration c: the rows of its file
\* from the row of the maximum count on, with the time counted from that
\* row, the count and the error of the count
CurveOf(c) ==
  LET t == FileT(c)
      F == FileF(c)
      a == FirstPeak(F)
      n == Len(t) + 1 - a
  IN <<[j \in 1..n |-> t[a + j - 1] - t[a]],
       [j \in 1..n |-> F[a + j - 1]],
       [j \in 1..n |-> sqrt(F[a + j - 1])]>>

\* every cell has been executed at most once
TopToBottom == Cardinality({k \in 1..Len(calls) : calls[k].cell = "fit_single"}) <= 1

\* C22: in top-to-bottom execution, the call of least_squares with
\* x0=[3000,150] is made with residuals denoting the single-curve function
\* and args the three series t, F, errF of the quencher-free curve; the
\* call with x0=param0 is made with residuals denoting the stacking function
\* and args three lists of five series, one per concentration; X, Y, errY
\* as pushed to R are the three series of the quencher-free curve.
C22_NamesAtLeastSquares ==
  TopToBottom =>
    /\ \A k \in 1..Len(calls) :
         /\ calls[k].x0 = x0_single =>
              /\ calls[k].cell = "fit_single"
              /\ calls[k].residuals = "single"
              /\ calls[k].args.kind = "series"
              /\ calls[k].args.cols = CurveOf(0)
         /\ calls[k].x0 = param0 =>
              /\ calls[k].cell = "fit_global"
              /\ calls[k].residuals = "global"
              /\ calls[k].args.kind = "lists"
              /\ Len(calls[k].args.cols) = 3
              /\ \A col \in 1..3 : Len(calls[k].args.cols[col]) = 5
              /\ \A i \in 1..5 :
                   LET curve == CurveOf(concs[i])
                   IN \A col \in 1..3 : calls[k].args.cols[col][i] = curve[col]
         /\ calls[k].x0 \in {x0_single, param0}
    /\ pushed /= NoArgs =>
         /\ pushed.kind = "series"
         /\ pushed.cols = CurveOf(0)
    /\ Ran("fit_single") => \E k \in 1..Len(calls) : calls[k].x0 = x0_single
    /\ Ran("fit_global") => \E k \in 1..Len(calls) : calls[k].x0 = param0
    /\ Ran("r_push") => pushed /= NoArgs

\* the notebook has run to its end: both fits were called, the second on
\* curves of several rows, after X, Y, errY were pushed
C22_Witness ==
  /\ Done
  /\ TopToBottom
  /\ Len(calls) = 2
  /\ calls[2].residuals = "global"
  /\ Len(calls[2].args.cols[1][2]) > 1
  /\ Len(pushed.cols[1]) > 1
  /\ res.fit = "global"

\* ------------------------------------------------------------ re-execution
\* the call of the first execution of the single-curve fit cell
FirstSingle == calls[CHOOSE k \in 1..Len(calls) : calls[k].cell = "fit_single"]

\* C23 as claimed: when the single-curve fit cell is executed again, at any
\* point after its turn, least_squares is called with the residual function
\* and the data of the first execution, and res is again the residuals of
\* the single-curve function on that data at the solution; while res still
\* holds the result of the first execution it is left as it is.
C23_SingleFitAgainIsTheSame ==
  [][(/\ \E k \in 1..Len(calls) : calls[k].cell = "fit_single"
      /\ Len(calls') = Len(calls) + 1
      /\ calls'[Len(calls')].cell = "fit_single") =>
       /\ calls'[Len(calls')].residuals = FirstSingle.residuals
       /\ calls'[Len(calls')].args = FirstSingle.args
       /\ res'.fun = residuals_single(res'.x, FirstSingle.args.cols)
       /\ (res.fit = "single" => res' = res)]_vars

\* what holds of the re-execution: before the cell that defines the
\* stacking function has run, the cell calls the function of its first
\* execution on the same data and leaves res as it is
SingleFitAgainBeforeGlobalDef ==
  [][(/\ \E k \in 1..Len(calls) : calls[k].cell = "fit_single"
      /\ Len(calls') = Len(calls) + 1
      /\ calls'[Len(calls')].cell = "fit_single"
      /\ ~Ran("def_global")) =>
       /\ calls'[Len(calls')] = FirstSingle
       /\ res' = res]_vars

\* ------------------------------------------------------ cells that raise
\* C21 as claimed: when the code cells are executed once each from top to
\* bottom, no cell raises because of the code of the notebook: every name
\* a cell reads is bound, every call of a function of the notebook passes
\* the parameters of its definition, and every code cell holds code.  Only
\* a cell that loads the files can raise, on what the files hold.
C21_NoCellFailsByItsCode ==
  \A cell \in errors : cell \in LoadingCells

====
